---- MODULE Spec2Model ----
(***************************************************************************)
(* Verification model of MazeSolver3D: the grid generators                 *)
(* (src/generator.ts), the segment builder (maze/SingleLayerMaze.ts,       *)
(* maze/MultiLayerMaze.ts), and the shared resource cache with its         *)
(* consumers (resources/ResourceManager.ts, resources/DisposalHelper.ts,   *)
(* resources/MeshFactory.ts, maze/Maze.ts, app/MainApp.ts).                *)
(***************************************************************************)
EXTENDS Integers, Sequences, FiniteSets, TLC

(***************************************************************************)
(* Bounds of the model                                                     *)
(***************************************************************************)
MaxWidth == 4
MaxHeight == 4
MaxCells == 8
MaxHandles == 8
MaxCacheHandles == 2
MaxCalls == 2
MaxSide == 3
MaxTyped == 6
PipeWidth == 6
PipeHeight == 5

Widths == 3..MaxWidth
Heights == 3..MaxHeight
EntryModes == {"none", "diagonal", "left&right", "top&bottom"}
Biases == {"none", "horizontal", "vertical"}

VARIABLES
    alg,          \* generator: which exported function runs
    width,        \* generator: parameter width
    height,       \* generator: parameter height
    mazeEntries,  \* generator: parameter mazeEntries
    bias,         \* generator: parameter bias
    maze,         \* generator: the local array maze[y][x], 0 = passage, 1 = wall
    frames,       \* generator: call stack of carve(), top first
    walls,        \* generator: the frontier list of randomizedPrims
    gpc,          \* generator: position in the function body
    bStack,       \* builder: the number[][][] handed to a Maze subclass
    bClass,       \* builder: the subclass whose createMaze has run
    bLayers,      \* builder: per layer object, the segments created, in order
    materials,    \* ResourceManager.materials: key -> handle
    geometries,   \* ResourceManager.geometries: key -> handle
    edgeGeometries, \* ResourceManager.edgeGeometries: key -> handle
    edgeMaterial, \* ResourceManager.edgeMaterial, NoHandle for null
    nextHandle,   \* the identity the next constructed THREE object gets
    disposed,     \* the handles on which dispose() has been called
    attrs,        \* colour, opacity and transparent of each mesh material
    mazeClass,    \* MainApp.maze: "single" or "multi"
    mazeData,     \* Maze.maze
    mazeLayers,   \* Maze.mazeLayers: layer objects, their groups, their children
    wallColor,    \* Maze.wallColor, the object MeshFactory.wallColor also is
    floorColor,   \* Maze.floorColor, the object MeshFactory.floorColor also is
    wallOpacity,  \* Maze.wallOpacity
    floorOpacity, \* Maze.floorOpacity
    showEdges,    \* Maze.showEdges
    mfWallOpacity,  \* MeshFactory.wallOpacity
    mfFloorOpacity, \* MeshFactory.floorOpacity
    mfShowEdges,  \* MeshFactory.showEdges
    isDisposed,   \* Maze.isDisposed
    lastOp,       \* the last call made, with its arguments and result
    handed,       \* per requested resource, the last arguments and handle returned
    locLayer,     \* marker locator: the number[][] it is called on
    locMarkers,   \* marker locator: what computeMarkersFromLayer returned last
    locCells,     \* marker locator: what computeStartEndCells returned last
    locCalls,     \* marker locator: calls of computeMarkersFromLayer so far
    edRows,       \* MazePopup.state.rows
    edCols,       \* MazePopup.state.cols
    edGrid,       \* MazePopup.state.grid
    edStart,      \* MazePopup.state.start
    edEnd,        \* MazePopup.state.end
    edTool,       \* MazePopup.state.tool
    edOp,         \* maze editor: the last handler that ran, with its event
    previewMarkers, \* MainApp.previewMarkers
    animationId,  \* Maze.animationId
    needsRender,  \* Maze.needsRender
    isRendering,  \* Maze.isRendering
    renderListeners, \* Maze.renderListeners
    rafQueue,     \* the browser: ids of the animation-frame callbacks pending
    nextFrame,    \* the browser: the id the next requestAnimationFrame returns
    unserved,     \* whether requestRender was called since the last render began
    renderTick,   \* the parity of the number of renders performed
    mazeInstances, \* every Maze constructed so far: class, isDisposed, listeners
    currentMaze,  \* MainApp.maze, as an index into mazeInstances
    preview,      \* the PreviewWindow: its fields and the browser's timers
    mainPreview   \* MainApp and GUI: the preview fields and settings.showPreview

genVars == <<alg, width, height, mazeEntries, bias, maze, frames, walls, gpc>>
buildVars == <<bStack, bClass, bLayers>>
rmVars == <<materials, geometries, edgeGeometries, edgeMaterial, nextHandle,
            disposed, attrs>>
mazeVars == <<mazeClass, mazeData, mazeLayers, wallColor, floorColor,
              wallOpacity, floorOpacity, showEdges, mfWallOpacity,
              mfFloorOpacity, mfShowEdges, isDisposed>>
appVars == <<rmVars, mazeVars, lastOp, handed>>
locVars == <<locLayer, locMarkers, locCells, locCalls>>
edVars == <<edRows, edCols, edGrid, edStart, edEnd, edTool, edOp>>
renderVars == <<animationId, needsRender, isRendering, renderListeners,
                rafQueue, nextFrame, unserved, renderTick>>
uiVars == <<mazeInstances, currentMaze, preview, mainPreview>>
extVars == <<locVars, edVars, previewMarkers, renderVars, uiVars>>
vars == <<genVars, buildVars, appVars, extVars>>
nonGenVars == <<buildVars, appVars, extVars>>
nonBuildVars == <<genVars, appVars, extVars>>
nonAppVars == <<genVars, buildVars, extVars>>
nonLocVars == <<genVars, buildVars, appVars, edVars, previewMarkers,
                renderVars, uiVars>>
nonEdVars == <<genVars, buildVars, appVars, locVars, previewMarkers,
               renderVars, uiVars>>

GenIdle ==
    /\ alg = "idle" /\ width = 0 /\ height = 0 /\ mazeEntries = "none"
    /\ bias = "none" /\ maze = << >> /\ frames = << >> /\ walls = << >>
    /\ gpc = "idle"

BuildIdle == bStack = << >> /\ bClass = "idle" /\ bLayers = << >>

NoHandle == 0
EmptyMap == [k \in {} |-> NoHandle]

RmIdle ==
    /\ materials = EmptyMap /\ geometries = EmptyMap
    /\ edgeGeometries = EmptyMap /\ edgeMaterial = NoHandle
    /\ nextHandle = 1 /\ disposed = {} /\ attrs = EmptyMap

MazeIdle ==
    /\ mazeClass = "idle" /\ mazeData = << >> /\ mazeLayers = << >>
    /\ wallColor = "" /\ floorColor = "" /\ wallOpacity = 0
    /\ floorOpacity = 0 /\ showEdges = FALSE /\ mfWallOpacity = 0
    /\ mfFloorOpacity = 0 /\ mfShowEdges = FALSE /\ isDisposed = FALSE

AppIdle ==
    /\ RmIdle /\ MazeIdle
    /\ lastOp = [op |-> "idle"] /\ handed = EmptyMap

LocIdle ==
    /\ locLayer = << >> /\ locMarkers = << >> /\ locCells = << >>
    /\ locCalls = 0

EdIdle ==
    /\ edRows = 0 /\ edCols = 0 /\ edGrid = << >> /\ edStart = << >>
    /\ edEnd = << >> /\ edTool = "pen" /\ edOp = [op |-> "idle"]

RenderIdle ==
    /\ animationId = << >> /\ needsRender = FALSE /\ isRendering = FALSE
    /\ renderListeners = {} /\ rafQueue = {} /\ nextFrame = 1
    /\ unserved = FALSE /\ renderTick = 0

UiIdle ==
    /\ mazeInstances = << >> /\ currentMaze = 0
    /\ preview = << >> /\ mainPreview = << >>

ExtIdle ==
    /\ LocIdle /\ EdIdle /\ previewMarkers = << >> /\ RenderIdle /\ UiIdle

(***************************************************************************)
(* generator.ts                                                            *)
(***************************************************************************)

\* Array.from({length: height}, () => Array(width).fill(1))
FilledMaze(w, h) == [y \in 0..(h - 1) |-> [x \in 0..(w - 1) |-> 1]]

SetCell(m, y, x, v) == [m EXCEPT ![y] = [m[y] EXCEPT ![x] = v]]

\* the literal direction list of carve(), as [dx, dy]
Directions == << <<1, 0>>, <<-1, 0>>, <<0, 1>>, <<0, -1>> >>

\* directions.sort(() => Math.random() - 0.5): a comparator that ignores its
\* arguments leaves the array in some permutation of itself
Shuffles ==
    {[i \in 1..4 |-> Directions[p[i]]] :
        p \in {q \in [1..4 -> 1..4] : \A i, j \in 1..4 : i # j => q[i] # q[j]}}

\* Array.prototype.sort((a, b) => b[k] - a[k]): a stable sort, descending in
\* component k; the components of a direction are 1, 0 or -1
SortDescBy(s, k) ==
    SelectSeq(s, LAMBDA d : d[k] = 1) \o
    SelectSeq(s, LAMBDA d : d[k] = 0) \o
    SelectSeq(s, LAMBDA d : d[k] = -1)

\* directions.sort(() => Math.random() - 0.5).sort((a, b) => b[0] - a[0])
HorizontalOrders == {SortDescBy(s, 1) : s \in Shuffles}

\* directions.sort(() => Math.random() - 0.5).sort((a, b) => b[1] - a[1])
VerticalOrders == {SortDescBy(s, 2) : s \in Shuffles}

\* the orders in which one carve() frame can walk its directions
DirectionOrders(b) ==
    IF b = "horizontal" THEN HorizontalOrders
    ELSE IF b = "vertical" THEN VerticalOrders
    ELSE Shuffles

\* the directions forEach can reach next in a frame that has already walked
\* the directions in tried: the element that follows them in one of the orders
NextDirections(b, tried) ==
    LET k == Cardinality(tried)
    IN {o[k + 1] : o \in {p \in DirectionOrders(b) :
                            k < 4 /\ {p[i] : i \in 1..k} = tried}}

\* border loops that leave the last column as carved
EnforceBorderSkipLastCol(m, w, h) ==
    [y \in 0..(h - 1) |-> [x \in 0..(w - 1) |->
        IF y = 0 \/ y = h - 1 \/ x = 0 THEN 1 ELSE m[y][x]]]

\* the two border loops that follow the carving
EnforceBorder(m, w, h) ==
    [y \in 0..(h - 1) |-> [x \in 0..(w - 1) |->
        IF y = 0 \/ y = h - 1 \/ x = 0 \/ x = w - 1 THEN 1 ELSE m[y][x]]]

\* the cells the if/else chain on mazeEntries sets to 0, as <<row, col>>
EntryCells(w, h, e) ==
    IF e = "diagonal" THEN {<<1, 0>>, <<h - 2, w - 1>>}
    ELSE IF e = "left&right" THEN {<<h \div 2, 0>>, <<h \div 2, w - 1>>}
    ELSE IF e = "top&bottom" THEN {<<0, w \div 2>>, <<h - 1, w \div 2>>}
    ELSE {}

CarveEntries(m, w, h, e) ==
    [y \in 0..(h - 1) |-> [x \in 0..(w - 1) |->
        IF <<y, x>> \in EntryCells(w, h, e) THEN 0 ELSE m[y][x]]]

Finalize(m, w, h, e) == CarveEntries(EnforceBorder(m, w, h), w, h, e)

\* addWalls(x, y) of randomizedPrims: the entries pushed, in push order
AddWalls(m, w, h, x, y) ==
    (IF x > 1 /\ m[y][x - 2] = 1 THEN << <<x - 2, y>> >> ELSE << >>) \o
    (IF x < w - 2 /\ m[y][x + 2] = 1 THEN << <<x + 2, y>> >> ELSE << >>) \o
    (IF y > 1 /\ m[y - 2][x] = 1 THEN << <<x, y - 2>> >> ELSE << >>) \o
    (IF y < h - 2 /\ m[y + 2][x] = 1 THEN << <<x, y + 2>> >> ELSE << >>)

\* the filtered neighbour list of one loop iteration of randomizedPrims
PrimsNeighbors(m, w, h, x, y) ==
    SelectSeq(<< <<x - 2, y>>, <<x + 2, y>>, <<x, y - 2>>, <<x, y + 2>> >>,
        LAMBDA n : n[1] >= 0 /\ n[1] < w /\ n[2] >= 0 /\ n[2] < h
                   /\ m[n[2]][n[1]] = 0)

\* a splice that removes nothing
RemoveAtNothing(s, i) == s

RemoveAt(s, i) == SubSeq(s, 1, i - 1) \o SubSeq(s, i + 1, Len(s))

GenInit ==
    /\ BuildIdle /\ AppIdle /\ ExtIdle
    /\ alg \in {"dfs", "prims"}
    /\ width \in Widths
    /\ height \in Heights
    /\ mazeEntries \in EntryModes
    /\ bias \in Biases
    /\ maze = FilledMaze(width, height)
    /\ frames = << >>
    /\ walls = << >>
    /\ gpc = "start"

\* randomizedDepthFirst: maze[1][1] = 0; carve(1, 1) up to its forEach
DfsStart ==
    /\ alg = "dfs" /\ gpc = "start"
    /\ maze' = SetCell(maze, 1, 1, 0)
    /\ frames' = << [x |-> 1, y |-> 1, tried |-> {}] >>
    /\ gpc' = "carve"
    /\ UNCHANGED <<alg, width, height, mazeEntries, bias, walls, nonGenVars>>

\* an iteration that carves the cell two steps away and leaves the cell in
\* between as it is
CarveTryNoConnector ==
    /\ alg = "dfs" /\ gpc = "carve"
    /\ frames # << >>
    /\ \E d \in NextDirections(bias, Head(frames).tried) :
          LET f == Head(frames)
              nx == f.x + d[1] * 2
              ny == f.y + d[2] * 2
              rest == << [f EXCEPT !.tried = @ \cup {d}] >> \o Tail(frames)
          IN IF nx >= 0 /\ nx < width /\ ny >= 0 /\ ny < height /\ maze[ny][nx] = 1
             THEN /\ maze' = SetCell(maze, ny, nx, 0)
                  /\ frames' = << [x |-> nx, y |-> ny, tried |-> {}] >> \o rest
             ELSE /\ maze' = maze
                  /\ frames' = rest
    /\ UNCHANGED <<alg, width, height, mazeEntries, bias, walls, gpc, nonGenVars>>

\* one iteration of directions.forEach in the running carve() frame
CarveTry ==
    /\ alg = "dfs" /\ gpc = "carve"
    /\ frames # << >>
    /\ \E d \in NextDirections(bias, Head(frames).tried) :
          LET f == Head(frames)
              nx == f.x + d[1] * 2
              ny == f.y + d[2] * 2
              rest == << [f EXCEPT !.tried = @ \cup {d}] >> \o Tail(frames)
          IN IF nx >= 0 /\ nx < width /\ ny >= 0 /\ ny < height /\ maze[ny][nx] = 1
             THEN /\ maze' = SetCell(SetCell(maze, ny, nx, 0), f.y + d[2], f.x + d[1], 0)
                  /\ frames' = << [x |-> nx, y |-> ny, tried |-> {}] >> \o rest
             ELSE /\ maze' = maze
                  /\ frames' = rest
    /\ UNCHANGED <<alg, width, height, mazeEntries, bias, walls, gpc, nonGenVars>>

\* the forEach of the running carve() frame is exhausted: carve() returns
CarveReturn ==
    /\ alg = "dfs" /\ gpc = "carve"
    /\ frames # << >>
    /\ Cardinality(Head(frames).tried) = 4
    /\ frames' = Tail(frames)
    /\ UNCHANGED <<alg, width, height, mazeEntries, bias, maze, walls, gpc, nonGenVars>>

\* randomizedDepthFirst after carve(1, 1) returned: border, entries, return
DfsFinish ==
    /\ alg = "dfs" /\ gpc = "carve"
    /\ frames = << >>
    /\ maze' = Finalize(maze, width, height, mazeEntries)
    /\ gpc' = "done"
    /\ UNCHANGED <<alg, width, height, mazeEntries, bias, frames, walls, nonGenVars>>

\* randomizedPrims: maze[1][1] = 0; addWalls(1, 1)
PrimsStart ==
    /\ alg = "prims" /\ gpc = "start"
    /\ maze' = SetCell(maze, 1, 1, 0)
    /\ walls' = AddWalls(maze', width, height, 1, 1)
    /\ gpc' = "loop"
    /\ UNCHANGED <<alg, width, height, mazeEntries, bias, frames, nonGenVars>>

\* one iteration of while (walls.length > 0)
PrimsStep ==
    /\ alg = "prims" /\ gpc = "loop"
    /\ Len(walls) > 0
    /\ \E i \in 1..Len(walls) :
          LET x == walls[i][1]
              y == walls[i][2]
              spliced == RemoveAt(walls, i)
              neighbors == PrimsNeighbors(maze, width, height, x, y)
          IN IF Len(neighbors) > 0
             THEN \E j \in 1..Len(neighbors) :
                     LET nx == neighbors[j][1]
                         ny == neighbors[j][2]
                         carved == SetCell(SetCell(maze, (y + ny) \div 2, (x + nx) \div 2, 0), y, x, 0)
                     IN /\ maze' = carved
                        /\ walls' = spliced \o AddWalls(carved, width, height, x, y)
             ELSE /\ maze' = maze
                  /\ walls' = spliced
    /\ UNCHANGED <<alg, width, height, mazeEntries, bias, frames, gpc, nonGenVars>>

\* randomizedPrims after the loop: border, entries, return
PrimsFinish ==
    /\ alg = "prims" /\ gpc = "loop"
    /\ Len(walls) = 0
    /\ maze' = Finalize(maze, width, height, mazeEntries)
    /\ gpc' = "done"
    /\ UNCHANGED <<alg, width, height, mazeEntries, bias, frames, walls, nonGenVars>>

GenNext ==
    \/ DfsStart \/ CarveTry \/ CarveReturn \/ DfsFinish
    \/ PrimsStart \/ PrimsStep \/ PrimsFinish

SpecGen == GenInit /\ [][GenNext]_vars

\* the function body is straight-line code: while a step is possible, one
\* is taken
SpecGenFair == SpecGen /\ WF_vars(GenNext)

(***************************************************************************)
(* maze/SingleLayerMaze.ts, maze/MultiLayerMaze.ts: segment derivation     *)
(* Lengths are in units of 1/20, so that every coordinate is an integer.   *)
(***************************************************************************)
\* config.cellSize ?? 1
CellSize == 20
\* config.wallHeight ?? 1
WallHeight == 20
\* config.wallThickness ?? 0.1
WallThickness == 2

Rows(layer) == Len(layer)

\* createWall calls decided by the left and upper neighbours instead
WallsOfCellLeftUp(layer, rowIndex, colIndex, layerHeight) ==
    LET row == layer[rowIndex + 1]
        cell == row[colIndex + 1]
    IN IF cell = 1
       THEN (IF colIndex > 0 /\ row[colIndex] = 1
             THEN << [kind |-> "wall",
                      x |-> colIndex * CellSize + CellSize \div 2,
                      y |-> layerHeight + WallHeight \div 2,
                      z |-> -(rowIndex * CellSize),
                      width |-> CellSize, height |-> WallHeight,
                      depth |-> WallThickness] >>
             ELSE << >>) \o
            (IF rowIndex > 0 /\ layer[rowIndex][colIndex + 1] = 1
             THEN << [kind |-> "wall",
                      x |-> colIndex * CellSize,
                      y |-> layerHeight + WallHeight \div 2,
                      z |-> -(rowIndex * CellSize + CellSize \div 2),
                      width |-> WallThickness, height |-> WallHeight,
                      depth |-> CellSize] >>
             ELSE << >>)
       ELSE << >>

\* the parameters of the two createWall calls made for one cell, in call order
WallsOfCell(layer, rowIndex, colIndex, layerHeight) ==
    LET row == layer[rowIndex + 1]
        cell == row[colIndex + 1]
    IN IF cell = 1
       THEN (IF colIndex < Len(row) - 1 /\ row[colIndex + 2] = 1
             THEN << [kind |-> "wall",
                      x |-> colIndex * CellSize + CellSize \div 2,
                      y |-> layerHeight + WallHeight \div 2,
                      z |-> -(rowIndex * CellSize),
                      width |-> CellSize, height |-> WallHeight,
                      depth |-> WallThickness] >>
             ELSE << >>) \o
            (IF rowIndex < Len(layer) - 1 /\ layer[rowIndex + 2][colIndex + 1] = 1
             THEN << [kind |-> "wall",
                      x |-> colIndex * CellSize,
                      y |-> layerHeight + WallHeight \div 2,
                      z |-> -(rowIndex * CellSize + CellSize \div 2),
                      width |-> WallThickness, height |-> WallHeight,
                      depth |-> CellSize] >>
             ELSE << >>)
       ELSE << >>

RECURSIVE WallsFrom(_, _, _, _)
\* layer.forEach(row => row.forEach(cell => ...)) from cell (rowIndex, colIndex) on
WallsFrom(layer, rowIndex, colIndex, layerHeight) ==
    IF rowIndex >= Len(layer) THEN << >>
    ELSE IF colIndex >= Len(layer[rowIndex + 1])
         THEN WallsFrom(layer, rowIndex + 1, 0, layerHeight)
         ELSE WallsOfCell(layer, rowIndex, colIndex, layerHeight) \o
              WallsFrom(layer, rowIndex, colIndex + 1, layerHeight)

\* MultiLayerMaze.createWallsForLayer
createWallsForLayer(layer, layerHeight) == WallsFrom(layer, 0, 0, layerHeight)

\* walls placed one storey up: y is wallHeight + wallHeight / 2
createWallsRaised(layer) == WallsFrom(layer, 0, 0, WallHeight)

\* SingleLayerMaze.createWalls: y is wallHeight / 2
createWalls(layer) == WallsFrom(layer, 0, 0, 0)

\* a floor for every cell, holes included
FloorOfCellNoHole(layer, rowIndex, colIndex, layerHeight) ==
    << [kind |-> "floor",
        x |-> colIndex * CellSize, y |-> layerHeight,
        z |-> -(rowIndex * CellSize),
        width |-> CellSize, height |-> CellSize] >>

\* the createSmallFloor call made for one cell of an upper layer
FloorOfCell(layer, rowIndex, colIndex, layerHeight) ==
    IF layer[rowIndex + 1][colIndex + 1] # 2
    THEN << [kind |-> "floor",
             x |-> colIndex * CellSize, y |-> layerHeight,
             z |-> -(rowIndex * CellSize),
             width |-> CellSize, height |-> CellSize] >>
    ELSE << >>

RECURSIVE FloorsFrom(_, _, _, _)
FloorsFrom(layer, rowIndex, colIndex, layerHeight) ==
    IF rowIndex >= Len(layer) THEN << >>
    ELSE IF colIndex >= Len(layer[rowIndex + 1])
         THEN FloorsFrom(layer, rowIndex + 1, 0, layerHeight)
         ELSE FloorOfCell(layer, rowIndex, colIndex, layerHeight) \o
              FloorsFrom(layer, rowIndex, colIndex + 1, layerHeight)

\* MultiLayerMaze.createLayerFloors
createLayerFloors(layer, layerHeight) == FloorsFrom(layer, 0, 0, layerHeight)

\* createMainFloor, the same in both subclasses
createMainFloor(layer) ==
    LET floorWidth == Len(layer[1]) * CellSize
        floorHeight == Len(layer) * CellSize
    IN << [kind |-> "floor",
           x |-> floorWidth \div 2 - CellSize \div 2,
           y |-> -(WallThickness \div 2),
           z |-> -(floorHeight \div 2) + CellSize \div 2,
           width |-> floorWidth, height |-> floorHeight] >>

\* the segments MultiLayerMaze.createMaze puts into the layer object of
\* this.maze[layerIndex]
MultiLayerSegments(layer, layerIndex) ==
    LET layerHeight == layerIndex * WallHeight
    IN createWallsForLayer(layer, layerHeight) \o
       (IF layerIndex > 0 THEN createLayerFloors(layer, layerHeight)
        ELSE createMainFloor(layer))

\* MultiLayerMaze.createMaze: one layer object per layer of the stack
MultiSegments(stack) ==
    [i \in 1..Len(stack) |-> MultiLayerSegments(stack[i], i - 1)]

\* SingleLayerMaze.createMaze: one layer object, built from this.maze[0]
SingleSegments(stack) ==
    << createWalls(stack[1]) \o createMainFloor(stack[1]) >>

Cells == {0, 1, 2}
\* the numbers of layers, rows and columns of the stacks built
BuildShapes ==
    {s \in (1..MaxCells) \X (1..MaxCells) \X (1..MaxCells) :
        s[1] * s[2] * s[3] <= MaxCells}
BuildStacks ==
    UNION {[1..s[1] -> [1..s[2] -> [1..s[3] -> Cells]]] : s \in BuildShapes}

BuildInit ==
    /\ GenIdle /\ AppIdle /\ ExtIdle
    /\ bStack \in BuildStacks
    /\ bClass = "none"
    /\ bLayers = << >>

\* new SingleLayerMaze(canvas, bStack): the constructor runs createMaze
BuildSingle ==
    /\ bClass = "none"
    /\ bClass' = "single"
    /\ bLayers' = SingleSegments(bStack)
    /\ UNCHANGED <<bStack, nonBuildVars>>

\* new MultiLayerMaze(canvas, bStack): the constructor runs createMaze
BuildMulti ==
    /\ bClass = "none"
    /\ bClass' = "multi"
    /\ bLayers' = MultiSegments(bStack)
    /\ UNCHANGED <<bStack, nonBuildVars>>

BuildNext == BuildSingle \/ BuildMulti

SpecBuild == BuildInit /\ [][BuildNext]_vars

(***************************************************************************)
(* resources/ResourceManager.ts                                            *)
(* A resource state r gathers the maps of one ResourceManager and the heap *)
(* of THREE objects: r.nextHandle, r.disposed, r.attrs.  Map keys are the  *)
(* template strings of the source, kept as tuples of their parts.          *)
(* Opacity is in percent.                                                  *)
(***************************************************************************)
\* opacity 1.0, below which a material is transparent
Opaque == 100
Colors == {"808080", "c0c0c0"}
Opacities == {Opaque, 50}

MapPut(f, k, v) == [x \in (DOMAIN f) \cup {k} |-> IF x = k THEN v ELSE f[x]]
Values(f) == {f[k] : k \in DOMAIN f}

RmState ==
    [materials |-> materials, geometries |-> geometries,
     edgeGeometries |-> edgeGeometries, edgeMaterial |-> edgeMaterial,
     nextHandle |-> nextHandle, disposed |-> disposed, attrs |-> attrs]

SetRm(r) ==
    /\ materials' = r.materials
    /\ geometries' = r.geometries
    /\ edgeGeometries' = r.edgeGeometries
    /\ edgeMaterial' = r.edgeMaterial
    /\ nextHandle' = r.nextHandle
    /\ disposed' = r.disposed
    /\ attrs' = r.attrs

\* new ResourceManager(): empty maps; the heap goes on
NewResourceManager(r) ==
    [r EXCEPT !.materials = EmptyMap, !.geometries = EmptyMap,
              !.edgeGeometries = EmptyMap, !.edgeMaterial = NoHandle]

\* every handle a ResourceManager holds
CacheHandles(r) ==
    Values(r.materials) \cup Values(r.geometries) \cup Values(r.edgeGeometries)
        \cup (IF r.edgeMaterial # NoHandle THEN {r.edgeMaterial} ELSE {})

\* `${key}-${type}-${color.getHexString()}-${opacity}`
MaterialKeyWithColor(key, type, color, opacity) == <<key, type, color, opacity>>

\* `${key}-${type}`
MaterialKey(key, type, color, opacity) == <<key, type>>

\* getMaterial(key, type, color, opacity)
getMaterial(r, key, type, color, opacity) ==
    LET materialKey == MaterialKey(key, type, color, opacity)
        r1 == IF materialKey \notin DOMAIN r.materials
              THEN [r EXCEPT
                      !.materials = MapPut(@, materialKey, r.nextHandle),
                      !.nextHandle = @ + 1,
                      !.attrs = MapPut(@, r.nextHandle,
                                       [color |-> color, opacity |-> opacity,
                                        transparent |-> opacity < Opaque])]
              ELSE r
        material == r1.materials[materialKey]
    IN [r |-> [r1 EXCEPT !.attrs[material] =
                   [color |-> color, opacity |-> opacity,
                    transparent |-> opacity < Opaque]],
        h |-> material]

\* a getBoxGeometry that constructs a geometry on every call
getBoxGeometryFresh(r, w, h, d) ==
    [r |-> [r EXCEPT !.geometries = MapPut(@, <<"box", w, h, d>>, r.nextHandle),
                     !.nextHandle = @ + 1],
     h |-> r.nextHandle]

\* getBoxGeometry(width, height, depth)
getBoxGeometry(r, w, h, d) ==
    LET key == <<"box", w, h, d>>
        r1 == IF key \notin DOMAIN r.geometries
              THEN [r EXCEPT !.geometries = MapPut(@, key, r.nextHandle),
                             !.nextHandle = @ + 1]
              ELSE r
    IN [r |-> r1, h |-> r1.geometries[key]]

\* getPlaneGeometry(width, height)
getPlaneGeometry(r, w, h) ==
    LET key == <<"plane", w, h>>
        r1 == IF key \notin DOMAIN r.geometries
              THEN [r EXCEPT !.geometries = MapPut(@, key, r.nextHandle),
                             !.nextHandle = @ + 1]
              ELSE r
    IN [r |-> r1, h |-> r1.geometries[key]]

\* getEdgeMaterial()
getEdgeMaterial(r) ==
    LET r1 == IF r.edgeMaterial = NoHandle
              THEN [r EXCEPT !.edgeMaterial = r.nextHandle, !.nextHandle = @ + 1]
              ELSE r
    IN [r |-> r1, h |-> r1.edgeMaterial]

\* getEdgesGeometry(baseGeometry): the key is `edges-${baseGeometry.uuid}`
getEdgesGeometry(r, baseGeometry) ==
    LET key == <<"edges", baseGeometry>>
        r1 == IF key \notin DOMAIN r.edgeGeometries
              THEN [r EXCEPT !.edgeGeometries = MapPut(@, key, r.nextHandle),
                             !.nextHandle = @ + 1]
              ELSE r
    IN [r |-> r1, h |-> r1.edgeGeometries[key]]

\* key.endsWith(`-${type}`) || key.includes(`-${type}-`): the parts of a key
\* hold no '-', so the test is on the part that ends the key or on an inner one
KeyMatchesType(materialKey, type) ==
    \E i \in 2..Len(materialKey) : materialKey[i] = type

MatchingMaterials(r, type) ==
    {r.materials[k] : k \in {q \in DOMAIN r.materials : KeyMatchesType(q, type)}}

\* an updateMaterialColor that recolours every cached material
updateMaterialColorAll(r, type, color) ==
    [r EXCEPT !.attrs =
        [h \in DOMAIN @ |->
            IF h \in Values(r.materials)
            THEN [@[h] EXCEPT !.color = color] ELSE @[h]]]

\* updateMaterialColor(type, color)
updateMaterialColor(r, type, color) ==
    [r EXCEPT !.attrs =
        [h \in DOMAIN @ |->
            IF h \in MatchingMaterials(r, type)
            THEN [@[h] EXCEPT !.color = color] ELSE @[h]]]

\* updateMaterialOpacity(type, opacity)
updateMaterialOpacity(r, type, opacity) ==
    [r EXCEPT !.attrs =
        [h \in DOMAIN @ |->
            IF h \in MatchingMaterials(r, type)
            THEN [@[h] EXCEPT !.opacity = opacity,
                              !.transparent = opacity < Opaque]
            ELSE @[h]]]

\* a dispose() that forgets to clear the geometry map
disposeKeepGeometries(r) ==
    [r EXCEPT !.disposed = @ \cup CacheHandles(r),
              !.materials = EmptyMap,
              !.edgeGeometries = EmptyMap,
              !.edgeMaterial = NoHandle]

\* dispose()
dispose(r) ==
    [r EXCEPT !.disposed = @ \cup CacheHandles(r),
              !.materials = EmptyMap,
              !.geometries = EmptyMap,
              !.edgeGeometries = EmptyMap,
              !.edgeMaterial = NoHandle]

\* clearMaterialCache()
clearMaterialCache(r) ==
    [r EXCEPT !.disposed = @ \cup Values(r.materials),
              !.materials = EmptyMap]

(***************************************************************************)
(* The ResourceManager driven through its public methods                   *)
(***************************************************************************)
MaterialTypes == {"wall", "floor"}
\* the box shapes of a horizontal and of a vertical connector
BoxShapes == {<<CellSize, WallHeight, WallThickness>>,
              <<WallThickness, WallHeight, CellSize>>}
\* the plane shape of a unit tile
PlaneShapes == {<<CellSize, CellSize>>}

CacheInit ==
    /\ GenIdle /\ BuildIdle /\ RmIdle /\ MazeIdle /\ ExtIdle
    /\ lastOp = [op |-> "new"]
    /\ handed = EmptyMap

Allocates(r) == r.nextHandle <= MaxCacheHandles + 1

\* the bookkeeping of one get call: the request (slot, args) returned got.h;
\* prev is the arguments of the previous request for the same slot
Got(op, slot, args, got) ==
    /\ Allocates(got.r)
    /\ SetRm(got.r)
    /\ lastOp' = [op |-> op, slot |-> slot, args |-> args, ret |-> got.h,
                  prev |-> IF slot \in DOMAIN handed THEN handed[slot].args
                           ELSE <<"none">>]
    /\ handed' = MapPut(handed, slot, [args |-> args, h |-> got.h])
    /\ UNCHANGED <<mazeVars, nonAppVars>>

GetMaterial ==
    \E type \in MaterialTypes, color \in Colors, opacity \in Opacities :
        Got("getMaterial", <<"material", type, type>>, <<color, opacity>>,
            getMaterial(RmState, type, type, color, opacity))

GetBoxGeometry ==
    \E b \in BoxShapes :
        Got("getBoxGeometry", <<"box", b[1], b[2], b[3]>>, << >>,
            getBoxGeometry(RmState, b[1], b[2], b[3]))

GetPlaneGeometry ==
    \E q \in PlaneShapes :
        Got("getPlaneGeometry", <<"plane", q[1], q[2]>>, << >>,
            getPlaneGeometry(RmState, q[1], q[2]))

GetEdgeMaterial ==
    Got("getEdgeMaterial", <<"edgeMaterial">>, << >>, getEdgeMaterial(RmState))

GetEdgesGeometry ==
    \E base \in Values(geometries) :
        Got("getEdgesGeometry", <<"edges", base>>, << >>,
            getEdgesGeometry(RmState, base))

UpdateMaterialColor ==
    \E type \in MaterialTypes, color \in Colors :
        /\ SetRm(updateMaterialColor(RmState, type, color))
        /\ lastOp' = [op |-> "updateMaterialColor"]
        /\ UNCHANGED <<handed, mazeVars, nonAppVars>>

UpdateMaterialOpacity ==
    \E type \in MaterialTypes, opacity \in Opacities :
        /\ SetRm(updateMaterialOpacity(RmState, type, opacity))
        /\ lastOp' = [op |-> "updateMaterialOpacity"]
        /\ UNCHANGED <<handed, mazeVars, nonAppVars>>

Dispose ==
    /\ SetRm(dispose(RmState))
    /\ lastOp' = [op |-> "dispose"]
    /\ handed' = EmptyMap
    /\ UNCHANGED <<mazeVars, nonAppVars>>

ClearMaterialCache ==
    /\ SetRm(clearMaterialCache(RmState))
    /\ lastOp' = [op |-> "clearMaterialCache"]
    /\ handed' = [q \in {x \in DOMAIN handed : x[1] # "material"} |-> handed[q]]
    /\ UNCHANGED <<mazeVars, nonAppVars>>

CacheNext ==
    \/ GetMaterial \/ GetBoxGeometry \/ GetPlaneGeometry
    \/ GetEdgeMaterial \/ GetEdgesGeometry
    \/ UpdateMaterialColor \/ UpdateMaterialOpacity
    \/ Dispose \/ ClearMaterialCache

SpecCache == CacheInit /\ [][CacheNext]_vars

\* the box and plane shapes with one dimension 0
DegenerateBoxShapes == {<<0, WallHeight, WallThickness>>,
                        <<CellSize, 0, WallThickness>>,
                        <<CellSize, WallHeight, 0>>}
DegeneratePlaneShapes == {<<0, CellSize>>, <<CellSize, 0>>}

\* getBoxGeometry(width, height, depth) with one of them 0
GetDegenerateBox ==
    \E b \in DegenerateBoxShapes :
        Got("getBoxGeometry", <<"box", b[1], b[2], b[3]>>, << >>,
            getBoxGeometry(RmState, b[1], b[2], b[3]))

\* getPlaneGeometry(width, height) with one of them 0
GetDegeneratePlane ==
    \E q \in DegeneratePlaneShapes :
        Got("getPlaneGeometry", <<"plane", q[1], q[2]>>, << >>,
            getPlaneGeometry(RmState, q[1], q[2]))

DegenerateNext ==
    \/ GetDegenerateBox \/ GetDegeneratePlane
    \/ GetBoxGeometry \/ GetPlaneGeometry \/ Dispose

SpecDegenerate == CacheInit /\ [][DegenerateNext]_vars

(***************************************************************************)
(* resources/DisposalHelper.ts                                             *)
(* A scene object is a record: type, geometry, material, userData.  A      *)
(* group is the sequence of its children, a layer object the sequence of   *)
(* its groups.  Disposal adds handles to the set d of disposed handles.    *)
(***************************************************************************)
\* disposeMesh(mesh)
disposeMesh(d, mesh) ==
    d \cup (IF ~mesh.userData.sharedGeometry THEN {mesh.geometry} ELSE {})
      \cup (IF ~mesh.userData.sharedMaterial THEN {mesh.material} ELSE {})

\* disposeLine(line)
disposeLine(d, line) ==
    d \cup (IF ~line.userData.sharedGeometry THEN {line.geometry} ELSE {})
      \cup (IF ~line.userData.sharedMaterial THEN {line.material} ELSE {})

\* disposeObject(obj) on a Mesh or a LineSegments, which have no children
disposeLeaf(d, obj) ==
    IF obj.type = "Mesh" THEN disposeMesh(d, obj)
    ELSE IF obj.type = "LineSegments" THEN disposeLine(d, obj)
    ELSE d

RECURSIVE disposeChildren(_, _)
\* the children.forEach of disposeObject(group)
disposeChildren(d, children) ==
    IF children = << >> THEN d
    ELSE disposeChildren(disposeLeaf(d, Head(children)), Tail(children))

RECURSIVE disposeObject(_, _)
\* disposeObject(layer): a plain Object3D, whose children are the groups
disposeObject(d, groups) ==
    IF groups = << >> THEN d
    ELSE disposeObject(disposeChildren(d, Head(groups)), Tail(groups))

\* disposeEdgesFromGroup(group): the lines are disposed and removed
disposeEdgesFromGroup(d, group) ==
    LET edges == SelectSeq(group, LAMBDA child : child.type = "LineSegments")
    IN [d |-> disposeChildren(d, edges),
        group |-> SelectSeq(group, LAMBDA child : child.type # "LineSegments")]

(***************************************************************************)
(* resources/MeshFactory.ts                                                *)
(* mf is the factory's settings: wallColor, floorColor, wallOpacity,       *)
(* floorOpacity, showEdges.                                                *)
(***************************************************************************)
Shared == [sharedGeometry |-> TRUE, sharedMaterial |-> TRUE]
NotShared == [sharedGeometry |-> FALSE, sharedMaterial |-> FALSE]

\* addEdgesToGroup(group, geometry, ...): the line it adds
addEdgesToGroup(r, geometry) ==
    LET edges == getEdgesGeometry(r, geometry)
        material == getEdgeMaterial(edges.r)
    IN [r |-> material.r,
        line |-> [type |-> "LineSegments", geometry |-> edges.h,
                  material |-> material.h, userData |-> Shared]]

\* the tail of createWall and createFloor: the group with its mesh and edges
GroupOf(r, mesh, showEdgesNow) ==
    IF showEdgesNow
    THEN LET e == addEdgesToGroup(r, mesh.geometry)
         IN [r |-> e.r, group |-> <<mesh, e.line>>]
    ELSE [r |-> r, group |-> <<mesh>>]

\* createWall(params)
createWall(r, params, mf) ==
    LET geometry == getBoxGeometry(r, params.width, params.height, params.depth)
        material == getMaterial(geometry.r, "wall", "wall",
                                mf.wallColor, mf.wallOpacity)
        wall == [type |-> "Mesh", kind |-> "wall", params |-> params,
                 geometry |-> geometry.h, material |-> material.h,
                 userData |-> Shared]
    IN GroupOf(material.r, wall, mf.showEdges)

\* createFloor(params), which createSmallFloor calls too
createFloor(r, params, mf) ==
    LET geometry == getPlaneGeometry(r, params.width, params.height)
        material == getMaterial(geometry.r, "floor", "floor",
                                mf.floorColor, mf.floorOpacity)
        floor == [type |-> "Mesh", kind |-> "floor", params |-> params,
                  geometry |-> geometry.h, material |-> material.h,
                  userData |-> Shared]
    IN GroupOf(material.r, floor, mf.showEdges)

(***************************************************************************)
(* maze/Maze.ts with its two subclasses                                    *)
(***************************************************************************)
DefaultWallColor == "808080"
DefaultFloorColor == "c0c0c0"

RECURSIVE CreateGroups(_, _, _)
\* the createWall / createFloor calls of one layer, in order, each group
\* being added to the layer object
CreateGroups(r, segments, mf) ==
    IF segments = << >> THEN [r |-> r, groups |-> << >>]
    ELSE LET one == IF Head(segments).kind = "wall"
                    THEN createWall(r, Head(segments), mf)
                    ELSE createFloor(r, Head(segments), mf)
             rest == CreateGroups(one.r, Tail(segments), mf)
         IN [r |-> rest.r, groups |-> <<one.group>> \o rest.groups]

RECURSIVE CreateLayers(_, _, _)
\* the layer objects pushed to mazeLayers, in order
CreateLayers(r, layerSegments, mf) ==
    IF layerSegments = << >> THEN [r |-> r, layers |-> << >>]
    ELSE LET one == CreateGroups(r, Head(layerSegments), mf)
             rest == CreateLayers(one.r, Tail(layerSegments), mf)
         IN [r |-> rest.r, layers |-> <<one.groups>> \o rest.layers]

RECURSIVE deleteMaze(_, _)
\* deleteMaze(): disposeObject on every layer object; mazeLayers becomes []
deleteMaze(r, layers) ==
    IF layers = << >> THEN r
    ELSE deleteMaze([r EXCEPT !.disposed = disposeObject(@, Head(layers))],
                    Tail(layers))

\* a createMaze without its deleteMaze: the new layer objects are pushed
\* after the ones mazeLayers holds
createMazeKeepingLayers(r, cls, stack, layers, mf) ==
    LET built == CreateLayers(r,
                     IF cls = "single" THEN SingleSegments(stack)
                     ELSE MultiSegments(stack),
                     mf)
    IN [r |-> built.r, layers |-> layers \o built.layers]

\* createMaze() of the subclass cls on this.maze = stack
createMaze(r, cls, stack, layers, mf) ==
    CreateLayers(deleteMaze(r, layers),
                 IF cls = "single" THEN SingleSegments(stack)
                 ELSE MultiSegments(stack),
                 mf)

RECURSIVE RebuildGroup(_, _, _)
\* rebuildEdges, the showEdges branch for one group: one line per Mesh, on a
\* new EdgesGeometry and the edge material of the ResourceManager
RebuildGroup(r, meshes, group) ==
    IF meshes = << >> THEN [r |-> r, group |-> group]
    ELSE LET edges == r.nextHandle
             material == getEdgeMaterial([r EXCEPT !.nextHandle = @ + 1])
             line == [type |-> "LineSegments", geometry |-> edges,
                      material |-> material.h, userData |-> NotShared]
         IN RebuildGroup(material.r, Tail(meshes), Append(group, line))

RECURSIVE RebuildGroups(_, _, _)
\* rebuildEdges over the groups of one layer object
RebuildGroups(r, groups, show) ==
    IF groups = << >> THEN [r |-> r, groups |-> << >>]
    ELSE LET cleared == disposeEdgesFromGroup(r.disposed, Head(groups))
             r1 == [r EXCEPT !.disposed = cleared.d]
             one == IF show
                    THEN RebuildGroup(r1,
                            SelectSeq(cleared.group, LAMBDA o : o.type = "Mesh"),
                            cleared.group)
                    ELSE [r |-> r1, group |-> cleared.group]
             rest == RebuildGroups(one.r, Tail(groups), show)
         IN [r |-> rest.r, groups |-> <<one.group>> \o rest.groups]

RECURSIVE rebuildEdges(_, _, _)
\* rebuildEdges()
rebuildEdges(r, layers, show) ==
    IF layers = << >> THEN [r |-> r, layers |-> << >>]
    ELSE LET one == RebuildGroups(r, Head(layers), show)
             rest == rebuildEdges(one.r, Tail(layers), show)
         IN [r |-> rest.r, layers |-> <<one.groups>> \o rest.layers]

\* the settings object of the MeshFactory
Factory ==
    [wallColor |-> wallColor, floorColor |-> floorColor,
     wallOpacity |-> mfWallOpacity, floorOpacity |-> mfFloorOpacity,
     showEdges |-> mfShowEdges]

\* the settings a MeshFactory is constructed with by the Maze constructor
DefaultFactory ==
    [wallColor |-> DefaultWallColor, floorColor |-> DefaultFloorColor,
     wallOpacity |-> Opaque, floorOpacity |-> Opaque, showEdges |-> TRUE]

\* the stacks handed to the application
StackWall == << << <<1, 1>>, <<0, 0>> >> >>
StackOpen == << << <<0, 0>>, <<0, 0>> >> >>
StackTwo == << << <<0>> >>, << <<0>> >> >>
AppStacks == {StackWall, StackOpen, StackTwo}

Fits(r) == r.nextHandle <= MaxHandles + 1

\* the visual defaults the Maze constructor sets
MazeDefaults ==
    /\ wallColor' = DefaultWallColor /\ floorColor' = DefaultFloorColor
    /\ wallOpacity' = Opaque /\ floorOpacity' = Opaque
    /\ showEdges' = TRUE
    /\ mfWallOpacity' = Opaque /\ mfFloorOpacity' = Opaque
    /\ mfShowEdges' = TRUE
    /\ isDisposed' = FALSE

\* new MainApp(): createInitialMaze() constructs a SingleLayerMaze
AppInit ==
    /\ \E stack \in AppStacks :
          LET built == createMaze(
                  [materials |-> EmptyMap, geometries |-> EmptyMap,
                   edgeGeometries |-> EmptyMap, edgeMaterial |-> NoHandle,
                   nextHandle |-> 1, disposed |-> {}, attrs |-> EmptyMap],
                  "single", stack, << >>, DefaultFactory)
          IN /\ materials = built.r.materials
             /\ geometries = built.r.geometries
             /\ edgeGeometries = built.r.edgeGeometries
             /\ edgeMaterial = built.r.edgeMaterial
             /\ nextHandle = built.r.nextHandle
             /\ disposed = built.r.disposed
             /\ attrs = built.r.attrs
             /\ mazeData = stack
             /\ mazeLayers = built.layers
    /\ mazeClass = "single"
    /\ wallColor = DefaultWallColor /\ floorColor = DefaultFloorColor
    /\ wallOpacity = Opaque /\ floorOpacity = Opaque
    /\ showEdges = TRUE
    /\ mfWallOpacity = Opaque /\ mfFloorOpacity = Opaque
    /\ mfShowEdges = TRUE
    /\ isDisposed = FALSE
    /\ lastOp = [op |-> "new"]
    /\ handed = EmptyMap

\* the application alone: generator, builder, locator and editor idle
Init == GenIdle /\ BuildIdle /\ ExtIdle /\ AppInit

\* an updateMazeData that disposes the ResourceManager before it rebuilds
UpdateMazeReuseDisposing(newMaze) ==
    IF isDisposed
    THEN UNCHANGED <<rmVars, mazeVars>>
    ELSE \E built \in {createMaze(dispose(deleteMaze(RmState, mazeLayers)),
                                    mazeClass, newMaze, << >>, Factory)} :
            /\ Fits(built.r)
            /\ SetRm(built.r)
            /\ mazeData' = newMaze
            /\ mazeLayers' = built.layers
            /\ UNCHANGED <<mazeClass, wallColor, floorColor, wallOpacity,
                           floorOpacity, showEdges, mfWallOpacity,
                           mfFloorOpacity, mfShowEdges, isDisposed>>

\* an updateMazeData that stores the stack and leaves the layers as built
UpdateMazeReuseKeeping(newMaze) ==
    IF isDisposed
    THEN UNCHANGED <<rmVars, mazeVars>>
    ELSE /\ mazeData' = newMaze
         /\ UNCHANGED <<rmVars, mazeLayers, mazeClass, wallColor, floorColor,
                        wallOpacity, floorOpacity, showEdges, mfWallOpacity,
                        mfFloorOpacity, mfShowEdges, isDisposed>>

\* Maze.updateMazeData(maze), the reuse path of MainApp.updateMaze
UpdateMazeReuse(newMaze) ==
    IF isDisposed
    THEN UNCHANGED <<rmVars, mazeVars>>
    ELSE \E built \in {createMaze(RmState, mazeClass, newMaze, mazeLayers,
                                    Factory)} :
            /\ Fits(built.r)
            /\ SetRm(built.r)
            /\ mazeData' = newMaze
            /\ mazeLayers' = built.layers
            /\ UNCHANGED <<mazeClass, wallColor, floorColor, wallOpacity,
                           floorOpacity, showEdges, mfWallOpacity,
                           mfFloorOpacity, mfShowEdges, isDisposed>>

\* Maze.destroy(): the resource state it leaves
destroy(r, layers, gone) ==
    IF gone THEN r ELSE dispose(deleteMaze(r, layers))

\* the replace path of MainApp.updateMaze: destroy the maze, construct one
UpdateMazeReplace(newMaze, cls) ==
    \E old \in {destroy(RmState, mazeLayers, isDisposed)} :
    \E built \in {createMaze(NewResourceManager(old), cls, newMaze, << >>,
                            DefaultFactory)} :
       /\ Fits(built.r)
       /\ SetRm(built.r)
       /\ mazeClass' = cls
       /\ mazeData' = newMaze
       /\ mazeLayers' = built.layers
       /\ MazeDefaults

\* MainApp.updateMaze(newMaze, multiLayer)
UpdateMaze ==
    \E newMaze \in AppStacks, multiLayer \in BOOLEAN :
        LET cls == IF multiLayer THEN "multi" ELSE "single"
        IN /\ IF cls = mazeClass
              THEN /\ UpdateMazeReuse(newMaze)
                   /\ lastOp' = [op |-> "updateMaze", path |-> "reuse",
                                 allocated |-> nextHandle]
              ELSE /\ UpdateMazeReplace(newMaze, cls)
                   /\ lastOp' = [op |-> "updateMaze", path |-> "replace",
                                 allocated |-> nextHandle]
           /\ UNCHANGED <<handed, nonAppVars>>

\* Maze.updateWallColor(color)
UpdateWallColor ==
    \E color \in Colors :
        /\ wallColor' = color
        /\ \E r \in {updateMaterialColor(RmState, "wall", color)} : SetRm(r)
        /\ lastOp' = [op |-> "updateMaterial"]
        /\ UNCHANGED <<mazeClass, mazeData, mazeLayers, floorColor, wallOpacity,
                       floorOpacity, showEdges, mfWallOpacity, mfFloorOpacity,
                       mfShowEdges, isDisposed, handed, nonAppVars>>

\* Maze.updateFloorColor(color)
UpdateFloorColor ==
    \E color \in Colors :
        /\ floorColor' = color
        /\ \E r \in {updateMaterialColor(RmState, "floor", color)} : SetRm(r)
        /\ lastOp' = [op |-> "updateMaterial"]
        /\ UNCHANGED <<mazeClass, mazeData, mazeLayers, wallColor, wallOpacity,
                       floorOpacity, showEdges, mfWallOpacity, mfFloorOpacity,
                       mfShowEdges, isDisposed, handed, nonAppVars>>

\* Maze.updateWallOpacity(opacity)
UpdateWallOpacity ==
    \E opacity \in Opacities :
        /\ wallOpacity' = opacity
        /\ \E r \in {updateMaterialOpacity(RmState, "wall", opacity)} : SetRm(r)
        /\ mfWallOpacity' = opacity
        /\ lastOp' = [op |-> "updateMaterial"]
        /\ UNCHANGED <<mazeClass, mazeData, mazeLayers, wallColor, floorColor,
                       floorOpacity, showEdges, mfFloorOpacity,
                       mfShowEdges, isDisposed, handed, nonAppVars>>

\* Maze.updateFloorOpacity(opacity)
UpdateFloorOpacity ==
    \E opacity \in Opacities :
        /\ floorOpacity' = opacity
        /\ \E r \in {updateMaterialOpacity(RmState, "floor", opacity)} : SetRm(r)
        /\ mfFloorOpacity' = opacity
        /\ lastOp' = [op |-> "updateMaterial"]
        /\ UNCHANGED <<mazeClass, mazeData, mazeLayers, wallColor, floorColor,
                       wallOpacity, showEdges, mfWallOpacity,
                       mfShowEdges, isDisposed, handed, nonAppVars>>

\* Maze.toggleEdges(showEdges)
ToggleEdges ==
    \E show \in BOOLEAN :
        /\ showEdges # show
        /\ \E rebuilt \in {rebuildEdges(RmState, mazeLayers, show)} :
              /\ Fits(rebuilt.r)
              /\ SetRm(rebuilt.r)
              /\ mazeLayers' = rebuilt.layers
        /\ showEdges' = show
        /\ mfShowEdges' = show
        /\ lastOp' = [op |-> "toggleEdges"]
        /\ UNCHANGED <<mazeClass, mazeData, wallColor, floorColor, wallOpacity,
                       floorOpacity, mfWallOpacity, mfFloorOpacity, isDisposed,
                       handed, nonAppVars>>

\* Maze.deleteMaze()
DeleteMaze ==
    /\ \E r \in {deleteMaze(RmState, mazeLayers)} : SetRm(r)
    /\ mazeLayers' = << >>
    /\ lastOp' = [op |-> "deleteMaze"]
    /\ UNCHANGED <<mazeClass, mazeData, wallColor, floorColor, wallOpacity,
                   floorOpacity, showEdges, mfWallOpacity, mfFloorOpacity,
                   mfShowEdges, isDisposed, handed, nonAppVars>>

\* Maze.destroy(), as MainApp.destroy() calls it
Destroy ==
    /\ ~isDisposed
    /\ isDisposed' = TRUE
    /\ \E r \in {destroy(RmState, mazeLayers, isDisposed)} : SetRm(r)
    /\ mazeLayers' = << >>
    /\ lastOp' = [op |-> "destroy"]
    /\ UNCHANGED <<mazeClass, mazeData, wallColor, floorColor, wallOpacity,
                   floorOpacity, showEdges, mfWallOpacity, mfFloorOpacity,
                   mfShowEdges, handed, nonAppVars>>

Next ==
    \/ UpdateMaze
    \/ UpdateWallColor \/ UpdateFloorColor
    \/ UpdateWallOpacity \/ UpdateFloorOpacity
    \/ ToggleEdges \/ DeleteMaze \/ Destroy

Spec == Init /\ [][Next]_vars

(***************************************************************************)
(* MainApp.updateMaze on a stack without layers: createMaze reads          *)
(* this.maze[0], which is undefined, and the TypeError leaves the handler  *)
(***************************************************************************)
\* [], the stack with no layer
EmptyStack == << >>

\* MainApp.updateMaze([], multiLayer): the state the TypeError leaves
UpdateMazeThrows ==
    \E multiLayer \in BOOLEAN :
        LET cls == IF multiLayer THEN "multi" ELSE "single"
            before == [data |-> mazeData, layers |-> mazeLayers,
                       gone |-> isDisposed]
        IN /\ IF cls = mazeClass
              THEN IF isDisposed
                   THEN /\ UNCHANGED <<rmVars, mazeVars>>
                        /\ lastOp' = [op |-> "updateMazeIgnored"]
                   ELSE /\ \E r \in {deleteMaze(RmState, mazeLayers)} : SetRm(r)
                        /\ mazeData' = EmptyStack
                        /\ mazeLayers' = << >>
                        /\ lastOp' = [op |-> "updateMazeThrew",
                                      path |-> "reuse", before |-> before]
                        /\ UNCHANGED <<mazeClass, wallColor, floorColor,
                                       wallOpacity, floorOpacity, showEdges,
                                       mfWallOpacity, mfFloorOpacity,
                                       mfShowEdges, isDisposed>>
              ELSE /\ \E r \in {destroy(RmState, mazeLayers, isDisposed)} :
                         SetRm(r)
                   /\ mazeLayers' = << >>
                   /\ isDisposed' = TRUE
                   /\ lastOp' = [op |-> "updateMazeThrew",
                                 path |-> "replace", before |-> before]
                   /\ UNCHANGED <<mazeClass, mazeData, wallColor, floorColor,
                                  wallOpacity, floorOpacity, showEdges,
                                  mfWallOpacity, mfFloorOpacity, mfShowEdges>>
           /\ UNCHANGED <<handed, nonAppVars>>

FailNext ==
    \/ UpdateMaze \/ UpdateMazeThrows
    \/ UpdateWallColor \/ ToggleEdges

SpecFail == Init /\ [][FailNext]_vars

(***************************************************************************)
(* The marker locators: computeMarkersFromLayer (maze/MultiLayerMaze.ts)   *)
(* and PreviewWindow.computeStartEndCells (preview/PreviewWindow.ts).      *)
(* null is the empty tuple, a value v that may be null is <<v>>; a cell is *)
(* [row, col], counted from 0 as in the source.                            *)
(***************************************************************************)
Null == << >>
Some(v) == <<v>>

\* the cells of a rows x cols layer in the order of the two nested loops
ScanOrder(rows, cols) ==
    [i \in 1..(rows * cols) |->
        [row |-> (i - 1) \div cols, col |-> (i - 1) % cols]]

\* the list paths: every cell whose value is 0, in scan order
PathList(layer, rows, cols) ==
    SelectSeq(ScanOrder(rows, cols),
              LAMBDA cell : layer[cell.row + 1][cell.col + 1] = 0)

\* the list boundary: the cells of paths on the first or last row or column
BoundaryList(paths, rows, cols) ==
    SelectSeq(paths,
              LAMBDA cell : \/ cell.row = 0 \/ cell.row = rows - 1
                            \/ cell.col = 0 \/ cell.col = cols - 1)

\* a start that is paths[0] even when boundary cells exist
PickMarkersPathFirst(boundary, paths) ==
    LET start == IF paths # << >> THEN Some(paths[1]) ELSE Null
        end0 == IF Len(boundary) > 1 THEN Some(boundary[Len(boundary)])
                ELSE Null
        end == IF end0 # Null THEN end0
               ELSE IF Len(paths) > 1 THEN Some(paths[Len(paths)]) ELSE start
    IN [start |-> start, end |-> end]

\* an end that falls back to start without looking at paths
PickMarkersEndIsStart(boundary, paths) ==
    LET start0 == IF boundary # << >> THEN Some(boundary[1]) ELSE Null
        end0 == IF Len(boundary) > 1 THEN Some(boundary[Len(boundary)])
                ELSE Null
        start == IF start0 = Null
                 THEN (IF paths # << >> THEN Some(paths[1]) ELSE Null)
                 ELSE start0
    IN [start |-> start, end |-> IF end0 = Null THEN start ELSE end0]

\* the four statements that pick start and end from boundary and paths
PickMarkers(boundary, paths) ==
    LET start0 == IF boundary # << >> THEN Some(boundary[1]) ELSE Null
        end0 == IF Len(boundary) > 1 THEN Some(boundary[Len(boundary)])
                ELSE Null
        start == IF start0 = Null
                 THEN (IF paths # << >> THEN Some(paths[1]) ELSE Null)
                 ELSE start0
        end == IF end0 = Null
               THEN (IF Len(paths) > 1 THEN Some(paths[Len(paths)]) ELSE start)
               ELSE end0
    IN [start |-> start, end |-> end]

\* a locator whose guard also returns null when no cell is a path
computeMarkersNullWithoutPath(layer) ==
    IF Len(layer) = 0 THEN Null
    ELSE LET rows == Len(layer)
             cols == Len(layer[1])
             paths == PathList(layer, rows, cols)
         IN IF paths = << >> THEN Null
            ELSE Some(PickMarkers(BoundaryList(paths, rows, cols), paths))

\* computeMarkersFromLayer(layer), for a layer that is an array of arrays
computeMarkersFromLayer(layer) ==
    IF Len(layer) = 0 THEN Null
    ELSE LET rows == Len(layer)
             cols == Len(layer[1])
             paths == PathList(layer, rows, cols)
         IN Some(PickMarkers(BoundaryList(paths, rows, cols), paths))

\* PreviewWindow.computeStartEndCells(mazeData), data being its argument
computeStartEndCells(data) ==
    IF Len(data) = 0 THEN [start |-> Null, end |-> Null]
    ELSE LET rows == Len(data)
             cols == Len(data[1])
             pathCells == PathList(data, rows, cols)
         IN PickMarkers(BoundaryList(pathCells, rows, cols), pathCells)

\* the layers the locators are called on: every layer of fewer than MaxSide
\* rows and columns, every layer of walls and paths of at most MaxSide rows
\* and columns, the empty layer, and the 5 x 5 layer with a full outer ring
\* of walls and an open interior
LocShapes == (1..(MaxSide - 1)) \X (1..(MaxSide - 1))
SquareLayers ==
    UNION {[1..r -> [1..c -> {0, 1}]] : r \in 1..MaxSide, c \in 1..MaxSide}
RingLayer ==
    << <<1, 1, 1, 1, 1>>, <<1, 0, 0, 0, 1>>, <<1, 0, 0, 0, 1>>,
       <<1, 0, 0, 0, 1>>, <<1, 1, 1, 1, 1>> >>
LocLayers ==
    UNION {[1..s[1] -> [1..s[2] -> Cells]] : s \in LocShapes}
        \cup SquareLayers \cup {<< >>, RingLayer}

LocInit ==
    /\ GenIdle /\ BuildIdle /\ AppIdle /\ EdIdle /\ previewMarkers = << >>
    /\ RenderIdle /\ UiIdle
    /\ locLayer \in LocLayers
    /\ locMarkers = << >> /\ locCells = << >> /\ locCalls = 0

\* a call computeMarkersFromLayer(locLayer)
Locate ==
    /\ locCalls < MaxCalls
    /\ locMarkers' = computeMarkersFromLayer(locLayer)
    /\ locCalls' = locCalls + 1
    /\ UNCHANGED <<locLayer, locCells, nonLocVars>>

\* a call computeStartEndCells(locLayer), as PreviewWindow.updateMaze makes
LocatePreview ==
    /\ locCells' = Some(computeStartEndCells(locLayer))
    /\ UNCHANGED <<locLayer, locMarkers, locCalls, nonLocVars>>

LocNext == Locate \/ LocatePreview

SpecLocate == LocInit /\ [][LocNext]_vars

(***************************************************************************)
(* The maze editor, MazePopup (sidebar/popup/maze.ts).  A mouse event is   *)
(* given by the row and column getCellFromEvent computes from its pixel    *)
(* position; a grid is a sequence of rows, cell (row, col) counted from 0. *)
(***************************************************************************)
Tools == {"pen", "eraser", "start", "end"}

\* Math.max(min, Math.min(max, value))
clamp(value, min, max) ==
    LET low == IF max < value THEN max ELSE value
    IN IF min > low THEN min ELSE low

\* initGrid(rows, cols): border cells 1, the others 0
initGrid(rows, cols) ==
    [r \in 1..rows |-> [c \in 1..cols |->
        IF r = 1 \/ c = 1 \/ r = rows \/ c = cols THEN 1 ELSE 0]]

\* a getCellFromEvent that moves an outside position to the nearest cell
getCellFromEventClamped(row, col, rows, cols) ==
    Some([row |-> clamp(row, 0, rows - 1), col |-> clamp(col, 0, cols - 1)])

\* getCellFromEvent(e), from the floor()ed row and col
getCellFromEvent(row, col, rows, cols) ==
    IF row < 0 \/ col < 0 \/ row >= rows \/ col >= cols
    THEN Null
    ELSE Some([row |-> row, col |-> col])

\* this.state.grid[row][col] = value
SetGrid(grid, row, col, value) ==
    [grid EXCEPT ![row + 1][col + 1] = value]

\* applyToolAt(pos): the grid, start and end it leaves
applyToolAt(grid, start, end, tool, pos) ==
    IF pos = Null THEN [grid |-> grid, start |-> start, end |-> end]
    ELSE LET row == pos[1].row
             col == pos[1].col
         IN CASE tool = "pen" ->
                   [grid |-> SetGrid(grid, row, col, 1),
                    start |-> start, end |-> end]
              [] tool = "eraser" ->
                   [grid |-> SetGrid(grid, row, col, 0),
                    start |-> IF start # Null /\ start[1].row = row
                                              /\ start[1].col = col
                              THEN Null ELSE start,
                    end |-> IF end # Null /\ end[1].row = row
                                          /\ end[1].col = col
                            THEN Null ELSE end]
              [] tool = "start" ->
                   [grid |-> SetGrid(grid, row, col, 0),
                    start |-> Some([row |-> row, col |-> col]), end |-> end]
              [] tool = "end" ->
                   [grid |-> SetGrid(grid, row, col, 0),
                    start |-> start, end |-> Some([row |-> row, col |-> col])]

\* rebuild(rows, cols)
rebuild(rows, cols) ==
    /\ edRows' = rows
    /\ edCols' = cols
    /\ edGrid' = initGrid(rows, cols)
    /\ edStart' = Null
    /\ edEnd' = Null

\* the numbers typed into the Rows and Cols inputs; 0 stands for an empty one
EdTyped == {0, MaxTyped}

\* the positions of the mouse events: four cells of the grid and one
\* position beyond each side
EdPoints(rows, cols) ==
    ((0..1) \X (0..1)) \cup {<<-1, 0>>, <<0, -1>>, <<rows, 0>>, <<0, cols>>}

\* new MazePopup(toolbar): both inputs show 12; setTool('pen'); rebuild
EdInit ==
    /\ GenIdle /\ BuildIdle /\ AppIdle /\ LocIdle /\ previewMarkers = << >>
    /\ RenderIdle /\ UiIdle
    /\ edRows = 12 /\ edCols = 12
    /\ edGrid = initGrid(12, 12)
    /\ edStart = Null /\ edEnd = Null
    /\ edTool = "pen"
    /\ edOp = [op |-> "new"]

\* setTool(tool), a click on one of the four tool buttons
EdSetTool ==
    \E tool \in Tools :
        /\ edTool' = tool
        /\ edOp' = [op |-> "setTool"]
        /\ UNCHANGED <<edRows, edCols, edGrid, edStart, edEnd, nonEdVars>>

\* handleMouseDown(e) with button 0, and handleMouseMove(e) while drawing
EdMouseDraw ==
    \E p \in EdPoints(edRows, edCols) :
    \E after \in {applyToolAt(edGrid, edStart, edEnd, edTool,
                              getCellFromEvent(p[1], p[2], edRows, edCols))} :
        /\ edGrid' = after.grid
        /\ edStart' = after.start
        /\ edEnd' = after.end
        /\ edOp' = [op |-> "mouse", row |-> p[1], col |-> p[2]]
        /\ UNCHANGED <<edRows, edCols, edTool, nonEdVars>>

\* handleCreate()
EdCreate ==
    \E typedRows \in EdTyped, typedCols \in EdTyped :
        /\ rebuild(clamp(typedRows, 5, 80), clamp(typedCols, 5, 80))
        /\ edOp' = [op |-> "create"]
        /\ UNCHANGED <<edTool, nonEdVars>>

\* handleClear()
EdClear ==
    /\ edGrid' = initGrid(edRows, edCols)
    /\ edStart' = Null
    /\ edEnd' = Null
    /\ edOp' = [op |-> "clear"]
    /\ UNCHANGED <<edRows, edCols, edTool, nonEdVars>>

\* handleReset()
EdReset ==
    /\ rebuild(edRows, edCols)
    /\ edOp' = [op |-> "reset"]
    /\ UNCHANGED <<edTool, nonEdVars>>

EdNext == EdSetTool \/ EdMouseDraw \/ EdCreate \/ EdClear \/ EdReset

SpecEdit == EdInit /\ [][EdNext]_vars

(***************************************************************************)
(* MainApp.updateMaze with its markers argument and updatePreview, and the *)
(* editor's Apply button that calls it.  The preview's mazeData is         *)
(* locLayer, its startCell and endCell are locCells.                       *)
(***************************************************************************)
\* this.state.grid.map(row => row.slice()).reverse()
ReverseRows(grid) == [i \in 1..Len(grid) |-> grid[Len(grid) + 1 - i]]

\* { row: this.state.rows - 1 - cell.row, col: cell.col }, null for null
FlipRow(cell, rows) ==
    IF cell = Null THEN Null
    ELSE Some([row |-> rows - 1 - cell[1].row, col |-> cell[1].col])

\* the Maze objects constructed while the model runs are at most
\* MaxInstances
MaxInstances == 3

\* new SingleLayerMaze(...) or new MultiLayerMaze(...), as the list of Maze
\* objects records it
NewInstance(cls) ==
    [cls |-> cls, isDisposed |-> FALSE, renderListeners |-> {}]

\* a replacement that leaves the old maze as it is
replaceInstanceKeeping(instances, current, cls) ==
    Append(instances,
           [NewInstance(cls) EXCEPT !.renderListeners = @ \cup {"count"}])

\* the else branch of MainApp.updateMaze on the Maze objects:
\* removeRenderListener and destroy on the old one, a new one constructed,
\* addRenderListener on it
replaceInstance(instances, current, cls) ==
    Append([instances EXCEPT
               ![current].renderListeners = @ \ {"count"},
               ![current].isDisposed = TRUE],
           [NewInstance(cls) EXCEPT !.renderListeners = @ \cup {"count"}])

\* MainApp.updateMaze(newMaze, multiLayer, markers); markers is Null when
\* the argument is left out
MainAppUpdateMaze(newMaze, multiLayer, markers) ==
    LET cls == IF multiLayer THEN "multi" ELSE "single"
    IN /\ IF cls = mazeClass
          THEN /\ UpdateMazeReuse(newMaze)
               /\ lastOp' = [op |-> "updateMaze", path |-> "reuse",
                             allocated |-> nextHandle]
               /\ UNCHANGED <<mazeInstances, currentMaze>>
          ELSE /\ Len(mazeInstances) < MaxInstances
               /\ UpdateMazeReplace(newMaze, cls)
               /\ lastOp' = [op |-> "updateMaze", path |-> "replace",
                             allocated |-> nextHandle]
               /\ mazeInstances' =
                     replaceInstance(mazeInstances, currentMaze, cls)
               /\ currentMaze' = Len(mazeInstances')
       /\ previewMarkers' = markers
       /\ IF Len(mazeData') > 0
          THEN /\ locLayer' = mazeData'[1]
               /\ locCells' = Some(computeStartEndCells(mazeData'[1]))
          ELSE UNCHANGED <<locLayer, locCells>>
       /\ UNCHANGED <<handed, locMarkers, locCalls, genVars, buildVars, edVars,
                      renderVars, preview, mainPreview>>

\* MainApp.updateMaze(newMaze, multiLayer), as the generators' buttons call it
PvUpdateMaze ==
    \E newMaze \in AppStacks, multiLayer \in BOOLEAN :
        MainAppUpdateMaze(newMaze, multiLayer, Null)

\* handleApply(), a click on the editor's Apply button
EdApply ==
    MainAppUpdateMaze(<< ReverseRows(edGrid) >>, FALSE,
                      Some([start |-> FlipRow(edStart, edRows),
                            end |-> FlipRow(edEnd, edRows)]))

\* the side of the editor grid Apply is pressed on: the popup offers 5 to 80
\* rows and columns, the grid is kept smaller here so that the scene built
\* from it stays within MaxHandles
PvSide == 2

\* new MainApp() with its first updatePreview(), and a MazePopup holding a
\* PvSide x PvSide grid on which the start tool and the end tool have been
\* used on no, one or two cells
PvInit ==
    /\ GenIdle /\ BuildIdle /\ AppInit /\ RenderIdle
    /\ mazeInstances =
          << [NewInstance("single") EXCEPT !.renderListeners = {"count"}] >>
    /\ currentMaze = 1
    /\ preview = << >> /\ mainPreview = << >>
    /\ previewMarkers = Null
    /\ locLayer = mazeData[1]
    /\ locCells = Some(computeStartEndCells(mazeData[1]))
    /\ locMarkers = << >> /\ locCalls = 0
    /\ edRows = PvSide /\ edCols = PvSide
    /\ \E s \in {Null, Some([row |-> 1, col |-> 1])},
          e \in {Null, Some([row |-> 1, col |-> 0]),
                       Some([row |-> 1, col |-> 1])} :
          LET first == applyToolAt(initGrid(PvSide, PvSide), Null, Null,
                                   "start", s)
              second == applyToolAt(first.grid, first.start, first.end,
                                    "end", e)
          IN /\ edGrid = second.grid
             /\ edStart = second.start
             /\ edEnd = second.end
             /\ edTool = IF e # Null THEN "end"
                         ELSE IF s # Null THEN "start" ELSE "pen"
             /\ edOp = IF s = Null /\ e = Null THEN [op |-> "create"]
                       ELSE IF e = Null
                            THEN [op |-> "mouse", row |-> 1, col |-> 1]
                            ELSE [op |-> "mouse", row |-> e[1].row,
                                  col |-> e[1].col]

PvNext == PvUpdateMaze \/ EdApply \/ ToggleEdges

SpecPreview == PvInit /\ [][PvNext]_vars

(***************************************************************************)
(* The render loop of a Maze: requestRender, the animation-frame callback  *)
(* it schedules, and destroy.  JavaScript runs a handler or a callback to  *)
(* its end before the next one starts, so each is one step; the calls made *)
(* inside the callback (the 'change' event of controls.update(), the       *)
(* render listeners) are part of its step.  The sections above run no      *)
(* animation frame and leave the loop aside.                               *)
(***************************************************************************)
\* requestAnimationFrame ids are kept within 1..MaxFrameIds
MaxFrameIds == 3

\* the listeners a Maze may hold: the one MainApp adds, which counts the
\* renders, and one that calls requestRender()
Listeners == {"count", "request"}

RenderState ==
    [animationId |-> animationId, needsRender |-> needsRender,
     isRendering |-> isRendering, rafQueue |-> rafQueue,
     nextFrame |-> nextFrame, unserved |-> unserved,
     renderTick |-> renderTick]

SetRender(s) ==
    /\ animationId' = s.animationId
    /\ needsRender' = s.needsRender
    /\ isRendering' = s.isRendering
    /\ rafQueue' = s.rafQueue
    /\ nextFrame' = s.nextFrame
    /\ unserved' = s.unserved
    /\ renderTick' = s.renderTick

\* the fields of a Maze before its constructor calls init()
NewRenderState ==
    [animationId |-> Null, needsRender |-> TRUE, isRendering |-> FALSE,
     rafQueue |-> {}, nextFrame |-> 1, unserved |-> FALSE, renderTick |-> 0]

\* this.animationId = requestAnimationFrame(callback)
requestAnimationFrame(s) ==
    [s EXCEPT !.animationId = Some(s.nextFrame),
              !.rafQueue = @ \cup {s.nextFrame},
              !.nextFrame = (s.nextFrame % MaxFrameIds) + 1]

\* a requestRender() that schedules a frame whether or not one is pending
requestRenderAlways(s, gone) ==
    IF gone THEN s
    ELSE requestAnimationFrame(
             [s EXCEPT !.needsRender = TRUE, !.unserved = TRUE,
                       !.isRendering = TRUE])

\* a requestRender() without the isDisposed check
requestRenderUnguarded(s, gone) ==
    IF s.isRendering
    THEN [s EXCEPT !.needsRender = TRUE, !.unserved = TRUE]
    ELSE requestAnimationFrame(
             [s EXCEPT !.needsRender = TRUE, !.unserved = TRUE,
                       !.isRendering = TRUE])

\* Maze.requestRender(), up to the requestAnimationFrame call; gone is
\* this.isDisposed
requestRender(s, gone) ==
    IF gone THEN s
    ELSE IF s.isRendering
         THEN [s EXCEPT !.needsRender = TRUE, !.unserved = TRUE]
         ELSE requestAnimationFrame(
                  [s EXCEPT !.needsRender = TRUE, !.unserved = TRUE,
                            !.isRendering = TRUE])

\* a callback that asks for the next frame only when controls.update()
\* returned true
frameCallbackNoRecheck(s, gone, change, needsMore, asks) ==
    IF gone \/ ~s.needsRender THEN [s EXCEPT !.isRendering = FALSE]
    ELSE LET cleared == [s EXCEPT !.needsRender = FALSE]
             updated == IF change THEN requestRender(cleared, FALSE)
                        ELSE cleared
             drawn == [updated EXCEPT !.unserved = FALSE,
                                      !.renderTick = 1 - @]
             heard == IF asks THEN requestRender(drawn, FALSE) ELSE drawn
             ended == [heard EXCEPT !.isRendering = FALSE]
         IN IF needsMore THEN requestRender(ended, FALSE) ELSE ended

\* the callback handed to requestAnimationFrame.  change: controls.update()
\* dispatches 'change', whose listener calls requestRender(); needsMore:
\* what controls.update() returns; asks: a render listener calls
\* requestRender()
frameCallback(s, gone, change, needsMore, asks) ==
    IF gone \/ ~s.needsRender THEN [s EXCEPT !.isRendering = FALSE]
    ELSE LET cleared == [s EXCEPT !.needsRender = FALSE]
             updated == IF change THEN requestRender(cleared, FALSE)
                        ELSE cleared
             drawn == [updated EXCEPT !.unserved = FALSE,
                                      !.renderTick = 1 - @]
             heard == IF asks THEN requestRender(drawn, FALSE) ELSE drawn
             ended == [heard EXCEPT !.isRendering = FALSE]
         IN IF needsMore \/ ended.needsRender
            THEN requestRender(ended, FALSE)
            ELSE ended

\* Maze.stopAnimation()
stopAnimation(s) ==
    IF s.animationId # Null
    THEN [s EXCEPT !.rafQueue = @ \ {s.animationId[1]},
                   !.animationId = Null]
    ELSE s

\* new MainApp(): the Maze constructor ends with init(), which calls
\* requestRender(); MainApp adds its render listener
RdInit ==
    /\ GenIdle /\ BuildIdle /\ AppInit
    /\ LocIdle /\ EdIdle /\ UiIdle /\ previewMarkers = Null
    /\ \E s \in {requestRender(NewRenderState, FALSE)} :
          /\ animationId = s.animationId
          /\ needsRender = s.needsRender
          /\ isRendering = s.isRendering
          /\ rafQueue = s.rafQueue
          /\ nextFrame = s.nextFrame
          /\ unserved = s.unserved
          /\ renderTick = s.renderTick
    /\ renderListeners = {"count"}

RdFixed ==
    <<handed, genVars, buildVars, locVars, edVars, previewMarkers, uiVars>>

\* the 'change' listener of the controls: () => this.requestRender()
RdRequestRender ==
    /\ SetRender(requestRender(RenderState, isDisposed))
    /\ lastOp' = [op |-> "requestRender", pending |-> isRendering,
                  gone |-> isDisposed]
    /\ UNCHANGED <<rmVars, mazeVars, renderListeners, RdFixed>>

\* Maze.resize()
RdResize ==
    /\ SetRender(requestRender(RenderState, isDisposed))
    /\ lastOp' = [op |-> "resize", pending |-> isRendering,
                  gone |-> isDisposed]
    /\ UNCHANGED <<rmVars, mazeVars, renderListeners, RdFixed>>

\* Maze.updateMazeData(maze)
RdUpdateMazeData ==
    \E newMaze \in AppStacks :
        /\ UpdateMazeReuse(newMaze)
        /\ SetRender(requestRender(RenderState, isDisposed))
        /\ lastOp' = [op |-> "updateMazeData", pending |-> isRendering,
                      gone |-> isDisposed]
        /\ UNCHANGED <<renderListeners, RdFixed>>

\* the browser runs a pending animation-frame callback
RdFrame ==
    \E id \in rafQueue, change \in BOOLEAN, needsMore \in BOOLEAN :
        /\ SetRender(frameCallback(
               [RenderState EXCEPT !.rafQueue = @ \ {id}], isDisposed,
               change, needsMore, "request" \in renderListeners))
        /\ lastOp' = [op |-> "frame",
                      rendered |-> ~isDisposed /\ needsRender,
                      asked |-> "request" \in renderListeners]
        /\ UNCHANGED <<rmVars, mazeVars, renderListeners, RdFixed>>

\* Maze.addRenderListener(listener)
RdAddRenderListener ==
    \E listener \in Listeners \ renderListeners :
        /\ renderListeners' = renderListeners \cup {listener}
        /\ lastOp' = [op |-> "addRenderListener"]
        /\ UNCHANGED <<rmVars, mazeVars, animationId, needsRender,
                       isRendering, rafQueue, nextFrame, unserved,
                       renderTick, RdFixed>>

\* Maze.removeRenderListener(listener)
RdRemoveRenderListener ==
    \E listener \in renderListeners :
        /\ renderListeners' = renderListeners \ {listener}
        /\ lastOp' = [op |-> "removeRenderListener"]
        /\ UNCHANGED <<rmVars, mazeVars, animationId, needsRender,
                       isRendering, rafQueue, nextFrame, unserved,
                       renderTick, RdFixed>>

\* Maze.destroy()
RdDestroy ==
    /\ IF isDisposed
       THEN UNCHANGED <<rmVars, mazeVars, renderVars>>
       ELSE /\ isDisposed' = TRUE
            /\ SetRender(stopAnimation(RenderState))
            /\ \E r \in {destroy(RmState, mazeLayers, isDisposed)} : SetRm(r)
            /\ mazeLayers' = << >>
            /\ UNCHANGED <<mazeClass, mazeData, wallColor, floorColor,
                           wallOpacity, floorOpacity, showEdges,
                           mfWallOpacity, mfFloorOpacity, mfShowEdges,
                           renderListeners>>
    /\ lastOp' = [op |-> "destroy", gone |-> isDisposed,
                  pending |-> isRendering]
    /\ UNCHANGED RdFixed

RdNext ==
    \/ RdRequestRender \/ RdResize \/ RdUpdateMazeData \/ RdFrame
    \/ RdAddRenderListener \/ RdRemoveRenderListener \/ RdDestroy

\* a scheduled animation frame eventually runs
SpecRender == RdInit /\ [][RdNext]_vars /\ WF_vars(RdFrame)

(***************************************************************************)
(* The preview window and the handlers of MainApp that show and hide it.   *)
(* u is the pair of the PreviewWindow (u.w) and of the preview fields of   *)
(* MainApp with settings.showPreview of the GUI (u.a): hide() and close()  *)
(* call back into MainApp.  A handler or a timer callback is one step.     *)
(***************************************************************************)
\* window.setTimeout ids are kept within 1..MaxTimerIds
MaxTimerIds == 3

\* the fields of a PreviewWindow after its constructor; display is
\* container.style.display, attached whether the container is in the page,
\* timers the timeouts the browser holds for it
NewPreviewWindow ==
    [isVisible |-> TRUE, isHiding |-> FALSE, isClosed |-> FALSE,
     hideTimeoutId |-> Null, display |-> "", attached |-> TRUE,
     timers |-> {}, nextTimer |-> 1]

\* if (this.hideTimeoutId !== null) { clearTimeout(...); ... = null }
clearHideTimeout(w) ==
    IF w.hideTimeoutId # Null
    THEN [w EXCEPT !.timers = @ \ {w.hideTimeoutId[1]},
                   !.hideTimeoutId = Null]
    ELSE w

\* a show() that leaves the hide timer running
showKeepingTimer(u) ==
    IF u.w.isClosed THEN u
    ELSE [u EXCEPT !.w = [@ EXCEPT !.isVisible = TRUE, !.isHiding = FALSE,
                                   !.hideTimeoutId = Null,
                                   !.display = "block"]]

\* PreviewWindow.show()
show(u) ==
    IF u.w.isClosed THEN u
    ELSE [u EXCEPT !.w =
             [clearHideTimeout([@ EXCEPT !.isVisible = TRUE,
                                         !.isHiding = FALSE])
                 EXCEPT !.display = "block"]]

\* MainApp.handlePreviewHidden()
handlePreviewHidden(u) ==
    [u EXCEPT !.a.isPreviewVisible = FALSE, !.a.showPreview = FALSE]

\* PreviewWindow.hide(): onHide is MainApp.handlePreviewHidden
hide(u) ==
    IF u.w.isClosed \/ u.w.isHiding \/ ~u.w.isVisible THEN u
    ELSE LET hidden == handlePreviewHidden(
                           [u EXCEPT !.w.isVisible = FALSE,
                                     !.w.isHiding = TRUE])
         IN [hidden EXCEPT
                !.w.hideTimeoutId = Some(hidden.w.nextTimer),
                !.w.timers = @ \cup {hidden.w.nextTimer},
                !.w.nextTimer = (@ % MaxTimerIds) + 1]

\* finalizeHide, the callback of the timer hide() sets
finalizeHide(u) ==
    IF ~u.w.isHiding \/ u.w.isClosed THEN u
    ELSE [u EXCEPT !.w =
             clearHideTimeout([@ EXCEPT !.isHiding = FALSE,
                                        !.display = "none"])]

\* MainApp.handlePreviewClosed()
handlePreviewClosed(u) ==
    [u EXCEPT !.a.isPreviewVisible = FALSE, !.a.isPreviewClosed = TRUE,
              !.a.previewWindow = FALSE, !.a.showPreview = FALSE]

\* PreviewWindow.destroy()
destroyPreview(u) ==
    [u EXCEPT !.w = [clearHideTimeout(@) EXCEPT !.attached = FALSE]]

\* PreviewWindow.close(): onClose is MainApp.handlePreviewClosed
close(u) ==
    IF u.w.isClosed THEN u
    ELSE destroyPreview(handlePreviewClosed(
             [u EXCEPT !.w = clearHideTimeout(
                                [@ EXCEPT !.isClosed = TRUE,
                                          !.isVisible = FALSE,
                                          !.isHiding = FALSE])]))

\* MainApp.setPreviewVisible(visible)
setPreviewVisible(u, visible) ==
    LET set == [u EXCEPT !.a.isPreviewVisible = visible]
    IN IF set.a.isPreviewClosed \/ ~set.a.previewWindow
       THEN IF visible
            THEN [set EXCEPT !.a.isPreviewVisible = FALSE,
                             !.a.showPreview = FALSE]
            ELSE set
       ELSE IF visible THEN show(set) ELSE hide(set)

\* MainApp.setDebugOverlayVisible(visible): the overlay's display and the
\* debug loop follow isDebugOverlayVisible
setDebugOverlayVisible(u, visible) ==
    [u EXCEPT !.a.isDebugOverlayVisible = visible]

\* MainApp.onWindowResize(), the debug overlay and the preview; isMobile
\* is window.innerWidth <= this.mobileBreakpoint
onWindowResize(u, isMobile) ==
    LET effectivePreviewVisible == ~isMobile /\ ~u.a.isPreviewClosed
        debug == IF u.a.isDebugOverlayVisible # ~isMobile
                 THEN [setDebugOverlayVisible(u, ~isMobile)
                          EXCEPT !.a.showDebug = ~isMobile]
                 ELSE u
    IN IF debug.a.isPreviewVisible # effectivePreviewVisible
       THEN [setPreviewVisible(debug, effectivePreviewVisible)
                EXCEPT !.a.showPreview = effectivePreviewVisible]
       ELSE debug

Ui == [w |-> preview, a |-> mainPreview]

SetUi(u) == preview' = u.w /\ mainPreview' = u.a

\* whether setPreviewVisible(visible) reaches previewWindow.show()
ReachesShow(u, visible) ==
    visible /\ ~u.a.isPreviewClosed /\ u.a.previewWindow

\* new MainApp(), on a wide or on a narrow window: the two visibility
\* fields and their settings are set to !isMobile, the PreviewWindow is
\* constructed, setDebugOverlayVisible and setPreviewVisible are called
WnInit ==
    /\ GenIdle /\ BuildIdle /\ RmIdle /\ MazeIdle /\ handed = EmptyMap
    /\ LocIdle /\ EdIdle /\ previewMarkers = << >> /\ RenderIdle
    /\ mazeInstances = << >> /\ currentMaze = 0
    /\ lastOp = [op |-> "new", shown |-> FALSE]
    /\ \E isMobile \in BOOLEAN :
       \E u \in {setPreviewVisible(
                    [w |-> NewPreviewWindow,
                     a |-> [isPreviewVisible |-> ~isMobile,
                            isPreviewClosed |-> FALSE,
                            previewWindow |-> TRUE,
                            showPreview |-> ~isMobile,
                            isDebugOverlayVisible |-> ~isMobile,
                            showDebug |-> ~isMobile]],
                    ~isMobile)} :
          preview = u.w /\ mainPreview = u.a

WnFixed ==
    <<rmVars, mazeVars, handed, genVars, buildVars, locVars, edVars,
      previewMarkers, renderVars, mazeInstances, currentMaze>>

\* the showPreview checkbox of the GUI: dat.GUI stores the value in
\* settings.showPreview and calls onChange
WnCheckbox ==
    \E value \in BOOLEAN :
        /\ value # mainPreview.showPreview
        /\ SetUi(setPreviewVisible([Ui EXCEPT !.a.showPreview = value],
                                   value))
        /\ lastOp' = [op |-> "checkbox", shown |-> ReachesShow(Ui, value)]
        /\ UNCHANGED WnFixed

\* the showDebug checkbox of the GUI
WnDebugCheckbox ==
    \E value \in BOOLEAN :
        /\ value # mainPreview.showDebug
        /\ SetUi(setDebugOverlayVisible([Ui EXCEPT !.a.showDebug = value],
                                        value))
        /\ lastOp' = [op |-> "debugCheckbox", shown |-> FALSE]
        /\ UNCHANGED WnFixed

\* the keydown listener, for the key 'p' or 'P'
WnKeyP ==
    /\ SetUi(setPreviewVisible(Ui, ~mainPreview.isPreviewVisible))
    /\ lastOp' = [op |-> "keyP",
                  shown |-> ReachesShow(Ui, ~mainPreview.isPreviewVisible)]
    /\ UNCHANGED WnFixed

\* a click on the hide button of the window
WnHideButton ==
    /\ preview.attached
    /\ SetUi(hide(Ui))
    /\ lastOp' = [op |-> "hideButton", shown |-> FALSE]
    /\ UNCHANGED WnFixed

\* a click on the close button of the window
WnCloseButton ==
    /\ preview.attached
    /\ SetUi(close(Ui))
    /\ lastOp' = [op |-> "closeButton", shown |-> FALSE]
    /\ UNCHANGED WnFixed

\* the resize listener of the window
WnResize ==
    \E isMobile \in BOOLEAN :
        /\ SetUi(onWindowResize(Ui, isMobile))
        /\ lastOp' =
              [op |-> "resize",
               shown |-> /\ mainPreview.isPreviewVisible
                              # (~isMobile /\ ~mainPreview.isPreviewClosed)
                         /\ ReachesShow(Ui, ~isMobile)]
        /\ UNCHANGED WnFixed

\* the browser runs a pending timeout
WnTimer ==
    \E id \in preview.timers :
        /\ SetUi(finalizeHide([Ui EXCEPT !.w.timers = @ \ {id}]))
        /\ lastOp' = [op |-> "timer", shown |-> FALSE]
        /\ UNCHANGED WnFixed

WnNext ==
    \/ WnCheckbox \/ WnDebugCheckbox \/ WnKeyP \/ WnHideButton
    \/ WnCloseButton \/ WnResize \/ WnTimer

SpecWindow == WnInit /\ [][WnNext]_vars

(***************************************************************************)
(* The generators called with a width or a height of 2: the source has no  *)
(* check of the dimensions, the body runs as for any other size            *)
(***************************************************************************)
SmallInit ==
    /\ BuildIdle /\ AppIdle /\ ExtIdle
    /\ alg \in {"dfs", "prims"}
    /\ width \in 2..MaxWidth
    /\ height \in 2..MaxHeight
    /\ width < 3 \/ height < 3
    /\ mazeEntries \in EntryModes
    /\ bias \in Biases
    /\ maze = FilledMaze(width, height)
    /\ frames = << >>
    /\ walls = << >>
    /\ gpc = "start"

SpecSmall == SmallInit /\ [][GenNext]_vars

(***************************************************************************)
(* randomizedPrims, then SingleLayerMaze.createMaze, then                  *)
(* computeMarkersFromLayer, on the layer the generator returned            *)
(***************************************************************************)
\* the number[][] the generator returns, rows and columns counted from 1
AsLayer(m, w, h) == [r \in 1..h |-> [c \in 1..w |-> m[r - 1][c - 1]]]

\* randomizedPrims(width, height) with mazeEntries and bias left to default
PipeInit ==
    /\ BuildIdle /\ AppIdle /\ ExtIdle
    /\ alg = "prims"
    /\ width \in 3..PipeWidth
    /\ height \in 3..PipeHeight
    /\ mazeEntries = "none"
    /\ bias = "none"
    /\ maze = FilledMaze(width, height)
    /\ frames = << >>
    /\ walls = << >>
    /\ gpc = "start"

\* new SingleLayerMaze(canvas, [layer]) on the returned layer
PipeBuild ==
    /\ gpc = "done" /\ bClass = "idle"
    /\ bStack' = << AsLayer(maze, width, height) >>
    /\ bClass' = "single"
    /\ bLayers' = SingleSegments(bStack')
    /\ UNCHANGED <<genVars, appVars, extVars>>

\* computeMarkersFromLayer(layer) on the returned layer
PipeLocate ==
    /\ gpc = "done" /\ locCalls = 0
    /\ locLayer' = AsLayer(maze, width, height)
    /\ locMarkers' = computeMarkersFromLayer(locLayer')
    /\ locCalls' = 1
    /\ UNCHANGED <<locCells, nonLocVars>>

PipeNext ==
    \/ PrimsStart \/ PrimsStep \/ PrimsFinish
    \/ PipeBuild \/ PipeLocate

SpecPipe == PipeInit /\ [][PipeNext]_vars

(***************************************************************************)
(* Properties of a returned layer                                          *)
(***************************************************************************)
PathCells(m, w, h) ==
    {c \in (0..(h - 1)) \X (0..(w - 1)) : m[c[1]][c[2]] = 0}

Adjacent(a, b) ==
    \/ a[1] = b[1] /\ (a[2] = b[2] + 1 \/ b[2] = a[2] + 1)
    \/ a[2] = b[2] /\ (a[1] = b[1] + 1 \/ b[1] = a[1] + 1)

\* unordered orthogonally adjacent pairs, each counted once
AdjacentPairs(cells) ==
    {p \in cells \X cells :
        (p[2][1] = p[1][1] /\ p[2][2] = p[1][2] + 1)
        \/ (p[2][2] = p[1][2] /\ p[2][1] = p[1][1] + 1)}

RECURSIVE Flood(_, _)
Flood(seen, cells) ==
    LET more == {c \in cells \ seen : \E s \in seen : Adjacent(c, s)}
    IN IF more = {} THEN seen ELSE Flood(seen \cup more, cells)

Connected(cells) == \A c \in cells : Flood({c}, cells) = cells

IsTree(cells) ==
    /\ Connected(cells)
    /\ Cardinality(AdjacentPairs(cells)) = Cardinality(cells) - 1

(***************************************************************************)
(* Claims about the generators                                             *)
(***************************************************************************)
OnBorder(c, w, h) == c[1] = 0 \/ c[1] = h - 1 \/ c[2] = 0 \/ c[2] = w - 1

\* C1: every layer returned by randomizedDepthFirst has its Path cells
\* connected (flood-fill from any Path cell reaches every other) and has
\* exactly (number of Path cells - 1) orthogonally adjacent Path-Path pairs.
C1_DfsPerfect ==
    (alg = "dfs" /\ gpc = "done") => IsTree(PathCells(maze, width, height))

\* C2: every layer returned by randomizedPrims has its Path cells forming a
\* spanning tree: connected, and adjacent Path-Path pairs = Path cells - 1.
C2_PrimsPerfect ==
    (alg = "prims" /\ gpc = "done") => IsTree(PathCells(maze, width, height))

\* C3: in every layer returned by either generator a border cell is Path if
\* and only if it is an entry cell of the requested mode (none: no cell;
\* diagonal: (1,0), (height-2,width-1); left&right: (height div 2, 0),
\* (height div 2, width-1); top&bottom: (0, width div 2),
\* (height-1, width div 2)); every other border cell is Wall.
C3_BorderIffEntry ==
    gpc = "done" =>
        \A r \in 0..(height - 1), c \in 0..(width - 1) :
            OnBorder(<<r, c>>, width, height) =>
                ((maze[r][c] = 0) <=>
                    \/ mazeEntries = "diagonal"
                        /\ (<<r, c>> = <<1, 0>> \/ <<r, c>> = <<height - 2, width - 1>>)
                    \/ mazeEntries = "left&right"
                        /\ r = height \div 2 /\ (c = 0 \/ c = width - 1)
                    \/ mazeEntries = "top&bottom"
                        /\ c = width \div 2 /\ (r = 0 \/ r = height - 1))
                /\ maze[r][c] \in {0, 1}

\* a returned layer of even width with entries carved
C3_Witness ==
    /\ gpc = "done" /\ width = 4 /\ height = 4
    /\ mazeEntries = "diagonal"
    /\ maze[1][0] = 0 /\ maze[2][3] = 0 /\ maze[1][3] = 1

(***************************************************************************)
(* Claims about the resource cache                                         *)
(***************************************************************************)
GetOps == {"getMaterial", "getBoxGeometry", "getPlaneGeometry",
           "getEdgeMaterial", "getEdgesGeometry"}

CacheEntries ==
    Cardinality(DOMAIN materials) + Cardinality(DOMAIN geometries)
        + Cardinality(DOMAIN edgeGeometries)
        + (IF edgeMaterial # NoHandle THEN 1 ELSE 0)

\* C5: a material get for a kind that is already cached, called with another
\* colour or opacity than the previous get for that kind, allocates no handle,
\* leaves the number of cache entries unchanged, returns the handle returned
\* before, and leaves that handle with the new colour and opacity.
C5_RecolourInPlace ==
    [][(/\ lastOp'.op = "getMaterial"
        /\ lastOp'.slot \in DOMAIN handed
        /\ handed[lastOp'.slot].args # lastOp'.args)
       => /\ nextHandle' = nextHandle
          /\ Cardinality(DOMAIN materials') = Cardinality(DOMAIN materials)
          /\ lastOp'.ret = handed[lastOp'.slot].h
          /\ attrs'[lastOp'.ret].color = lastOp'.args[1]
          /\ attrs'[lastOp'.ret].opacity = lastOp'.args[2]]_vars

\* a wall material got a second time, with another colour
C5_Witness ==
    /\ lastOp.op = "getMaterial"
    /\ lastOp.slot = <<"material", "wall", "wall">>
    /\ lastOp.prev = <<"808080", Opaque>>
    /\ lastOp.args = <<"c0c0c0", Opaque>>
    /\ nextHandle = 2
    /\ attrs[lastOp.ret].color = "c0c0c0"

\* C6: a get whose key is identical to that of an earlier get on the same
\* cache, with no dispose in between, returns the same handle and adds no
\* cache entry.
C6_SameKeySameHandle ==
    [][(/\ lastOp'.op \in GetOps
        /\ lastOp'.slot \in DOMAIN handed
        /\ handed[lastOp'.slot].args = lastOp'.args)
       => /\ lastOp'.ret = handed[lastOp'.slot].h
          /\ CacheEntries' = CacheEntries
          /\ nextHandle' = nextHandle]_vars

\* a box geometry got again after another get came in between
C6_Witness ==
    /\ lastOp.op = "getBoxGeometry"
    /\ lastOp.prev = lastOp.args
    /\ lastOp.ret = 1
    /\ nextHandle = 3
    /\ Cardinality(DOMAIN geometries) = 2

\* C7: dispose() disposes every handle held by the cache and leaves every
\* map empty; a get made after it returns a handle that has not been
\* disposed, and the first get after a dispose() returns a new handle.
C7_DisposeThenFresh ==
    [][/\ lastOp'.op = "dispose"
          => /\ CacheHandles(RmState) \subseteq disposed'
             /\ materials' = EmptyMap /\ geometries' = EmptyMap
             /\ edgeGeometries' = EmptyMap /\ edgeMaterial' = NoHandle
       /\ lastOp'.op \in GetOps
          => /\ lastOp'.ret \notin disposed'
             /\ lastOp.op = "dispose" => lastOp'.ret = nextHandle]_vars

\* a get for a key that was cached before a dispose()
C7_Witness ==
    /\ lastOp.op = "getBoxGeometry"
    /\ 1 \in disposed
    /\ lastOp.ret = 2
    /\ geometries = MapPut(EmptyMap, lastOp.slot, 2)

(***************************************************************************)
(* Claims about the segment builder                                        *)
(***************************************************************************)
SeqToSet(q) == {q[i] : i \in 1..Len(q)}

WallsIn(segs) == SelectSeq(segs, LAMBDA g : g.kind = "wall")
FloorsIn(segs) == SelectSeq(segs, LAMBDA g : g.kind = "floor")

\* the layer index whose segments are in layer object i of the built scene
IsHorizontalAt(g, r, c, li) ==
    /\ g.kind = "wall"
    /\ g.width = CellSize /\ g.height = WallHeight /\ g.depth = WallThickness
    /\ g.x = c * CellSize + CellSize \div 2
    /\ g.z = -(r * CellSize)
    /\ g.y = li * WallHeight + WallHeight \div 2

IsVerticalAt(g, r, c, li) ==
    /\ g.kind = "wall"
    /\ g.width = WallThickness /\ g.height = WallHeight /\ g.depth = CellSize
    /\ g.x = c * CellSize
    /\ g.z = -(r * CellSize + CellSize \div 2)
    /\ g.y = li * WallHeight + WallHeight \div 2

CountWhere(q, P(_)) == Cardinality({i \in 1..Len(q) : P(q[i])})

\* C9: for every layer and every cell (r,c), the builder emits a horizontal
\* connector for (r,c) iff (r,c) is Wall, c+1 is in bounds and (r,c+1) is
\* Wall, and a vertical connector iff (r,c) is Wall, r+1 is in bounds and
\* (r+1,c) is Wall; each at most once, and nothing else is emitted.
C9_WallRule ==
    bClass \in {"single", "multi"} =>
        \A i \in 1..Len(bLayers) :
            LET layer == bStack[i]
                ws == WallsIn(bLayers[i])
                nRows == Len(layer)
                nCols == Len(layer[1])
                wantH == {rc \in (0..(nRows - 1)) \X (0..(nCols - 1)) :
                            /\ layer[rc[1] + 1][rc[2] + 1] = 1
                            /\ rc[2] + 1 <= nCols - 1
                            /\ layer[rc[1] + 1][rc[2] + 2] = 1}
                wantV == {rc \in (0..(nRows - 1)) \X (0..(nCols - 1)) :
                            /\ layer[rc[1] + 1][rc[2] + 1] = 1
                            /\ rc[1] + 1 <= nRows - 1
                            /\ layer[rc[1] + 2][rc[2] + 1] = 1}
            IN /\ \A rc \in (0..(nRows - 1)) \X (0..(nCols - 1)) :
                    /\ CountWhere(ws, LAMBDA g : IsHorizontalAt(g, rc[1], rc[2], i - 1))
                         = (IF rc \in wantH THEN 1 ELSE 0)
                    /\ CountWhere(ws, LAMBDA g : IsVerticalAt(g, rc[1], rc[2], i - 1))
                         = (IF rc \in wantV THEN 1 ELSE 0)
               /\ Len(ws) = Cardinality(wantH) + Cardinality(wantV)

\* a built layer whose cell (1,1) is Wall with Wall neighbours to its left
\* and above, and that has connectors
C9_Witness ==
    /\ bClass = "multi" /\ Len(bStack) = 2
    /\ bStack[2] = << <<0, 1>>, <<1, 1>> >>
    /\ Len(WallsIn(bLayers[2])) = 2

\* C10: the floor output of MultiLayerMaze is exactly one tile for layer 0,
\* of size cols*cellSize by rows*cellSize whatever the cells of layer 0, and
\* for every layer above 0 exactly one unit tile per cell whose value is not
\* Opening, and none for an Opening cell.
C10_FloorRule ==
    bClass = "multi" =>
        /\ Len(bLayers) = Len(bStack)
        /\ LET fs == FloorsIn(bLayers[1])
           IN /\ Len(fs) = 1
              /\ fs[1].width = Len(bStack[1][1]) * CellSize
              /\ fs[1].height = Len(bStack[1]) * CellSize
        /\ \A i \in 2..Len(bStack) :
              LET layer == bStack[i]
                  fs == FloorsIn(bLayers[i])
                  cells == (0..(Len(layer) - 1)) \X (0..(Len(layer[1]) - 1))
                  want == {rc \in cells : layer[rc[1] + 1][rc[2] + 1] # 2}
              IN /\ \A rc \in cells :
                      CountWhere(fs, LAMBDA g :
                          /\ g.width = CellSize /\ g.height = CellSize
                          /\ g.x = rc[2] * CellSize /\ g.z = -(rc[1] * CellSize)
                          /\ g.y = (i - 1) * WallHeight)
                        = (IF rc \in want THEN 1 ELSE 0)
                 /\ Len(fs) = Cardinality(want)

\* a built two-layer stack with an Opening on the ground layer and, above, an
\* Opening, a Wall and a Path cell
C10_Witness ==
    /\ bClass = "multi" /\ Len(bStack) = 2
    /\ bStack[1] = << <<2, 0>>, <<0, 1>> >>
    /\ bStack[2] = << <<2, 1>>, <<0, 2>> >>
    /\ Len(FloorsIn(bLayers[1])) = 1
    /\ Len(FloorsIn(bLayers[2])) = 2

(***************************************************************************)
(* Properties of the resources of a maze                                   *)
(***************************************************************************)
\* the geometry and material handles the objects of the layers reference
SceneHandles(layers) ==
    UNION {UNION {UNION {{g[k].geometry, g[k].material} : k \in DOMAIN g}
                  : g \in SeqToSet(l)}
           : l \in SeqToSet(layers)}

\* C4: before destroy(), whatever Maze operations ran, no handle held by a
\* cache of the ResourceManager has been disposed.
C4_NoCachedHandleDisposed ==
    ~isDisposed => CacheHandles(RmState) \cap disposed = {}

\* every entry the caches held before the step is held, with the same handle,
\* after it
CacheKept ==
    /\ \A k \in DOMAIN materials :
          k \in DOMAIN materials' /\ materials'[k] = materials[k]
    /\ \A k \in DOMAIN geometries :
          k \in DOMAIN geometries' /\ geometries'[k] = geometries[k]
    /\ \A k \in DOMAIN edgeGeometries :
          k \in DOMAIN edgeGeometries' /\ edgeGeometries'[k] = edgeGeometries[k]
    /\ edgeMaterial # NoHandle => edgeMaterial' = edgeMaterial

\* the old cache is disposed and the rebuilt scene references no handle
\* allocated before the step
DisposedThenRebuilt ==
    /\ CacheHandles(RmState) \subseteq disposed'
    /\ \A h \in SceneHandles(mazeLayers') : h >= nextHandle

\* C8 as the specification states it: every rebuild, on the reuse and on the
\* replace path, disposes the whole cache first and references no handle
\* allocated before it.
C8_DisposeThenRebuild ==
    [][lastOp'.op = "updateMaze" => DisposedThenRebuilt]_vars

\* C8: a rebuild on the replace path disposes the old cache and references
\* no handle allocated before it; a rebuild on the reuse path of a live maze
\* keeps every cache entry with its handle, and every object of the rebuilt
\* scene references handles the cache holds.
C8_RebuildKeepsCache ==
    [][lastOp'.op = "updateMaze" =>
         IF lastOp'.path = "replace"
         THEN DisposedThenRebuilt
         ELSE ~isDisposed =>
                /\ CacheKept
                /\ SceneHandles(mazeLayers') \subseteq CacheHandles(RmState')]_vars

\* a rebuild on the reuse path with walls that references handles allocated
\* before it and handles allocated by it
C8_Witness ==
    /\ lastOp.op = "updateMaze" /\ lastOp.path = "reuse"
    /\ ~isDisposed
    /\ mazeData = StackWall
    /\ \E h \in SceneHandles(mazeLayers) : h < lastOp.allocated
    /\ \E h \in SceneHandles(mazeLayers) : h >= lastOp.allocated

(***************************************************************************)
(* Claims about the marker locators                                        *)
(***************************************************************************)
\* the Path cells of a rectangular layer, as a set
PathSet(layer) ==
    {cell \in [row : 0..(Len(layer) - 1), col : 0..(Len(layer[1]) - 1)] :
        layer[cell.row + 1][cell.col + 1] = 0}

\* those of them on the outer boundary
BoundarySet(layer) ==
    {cell \in PathSet(layer) :
        \/ cell.row \in {0, Len(layer) - 1}
        \/ cell.col \in {0, Len(layer[1]) - 1}}

\* cell a is scanned before cell b in row-major order
Before(a, b) == a.row < b.row \/ (a.row = b.row /\ a.col < b.col)
FirstOf(S) == CHOOSE a \in S : \A b \in S \ {a} : Before(a, b)
LastOf(S) == CHOOSE a \in S : \A b \in S \ {a} : Before(b, a)

\* start and end as the rule of C11 gives them for a layer with a Path cell
ExpectedStart(layer) ==
    IF BoundarySet(layer) # {} THEN FirstOf(BoundarySet(layer))
    ELSE FirstOf(PathSet(layer))
ExpectedEnd(layer) ==
    IF Cardinality(BoundarySet(layer)) > 1 THEN LastOf(BoundarySet(layer))
    ELSE IF Cardinality(PathSet(layer)) > 1 THEN LastOf(PathSet(layer))
    ELSE ExpectedStart(layer)
ExpectedMarkers(layer) ==
    [start |-> Some(ExpectedStart(layer)), end |-> Some(ExpectedEnd(layer))]

\* C11: on a layer with at least one Path cell both locators return
\* start = the first boundary Path cell in row-major order if there is one,
\* else the first Path cell; end = the last boundary Path cell if there are
\* at least two, else the last Path cell if there are at least two, else
\* start; start and end are Path cells of the layer.
C11_MarkerRule ==
    (locLayer # << >> /\ PathSet(locLayer) # {}) =>
        /\ locCalls > 0 =>
              /\ locMarkers = Some(ExpectedMarkers(locLayer))
              /\ locMarkers[1].start[1] \in PathSet(locLayer)
              /\ locMarkers[1].end[1] \in PathSet(locLayer)
        /\ locCells # << >> => locCells = Some(ExpectedMarkers(locLayer))

\* both locators called on a layer with one boundary Path cell and Path
\* cells inside: start is the boundary cell, end the last Path cell
C11_Witness ==
    /\ locLayer = << <<1, 0, 1>>, <<1, 0, 1>>, <<1, 1, 1>> >>
    /\ locCalls > 0 /\ locCells # << >>
    /\ locMarkers[1].start = Some([row |-> 0, col |-> 1])
    /\ locMarkers[1].end = Some([row |-> 1, col |-> 1])

\* C12 as the specification states it: on a non-empty layer without a Path
\* cell computeMarkersFromLayer returns null, not a pair.
C12_NullWithoutPath ==
    (locCalls > 0 /\ locLayer # << >> /\ PathSet(locLayer) = {}) =>
        locMarkers = Null

\* C12: on a non-empty layer without a Path cell computeMarkersFromLayer
\* returns a pair whose start and end are both null; it returns null only
\* for the empty layer.
C12_NullPairWithoutPath ==
    locCalls > 0 =>
        /\ (locLayer # << >> /\ PathSet(locLayer) = {}) =>
              locMarkers = Some([start |-> Null, end |-> Null])
        /\ locMarkers = Null <=> locLayer = << >>

\* the locator called on a layer of walls and one opening
C12_Witness ==
    /\ locCalls > 0
    /\ locLayer = << <<1, 2>>, <<1, 1>> >>
    /\ locMarkers = Some([start |-> Null, end |-> Null])

\* C18 as the specification states it: on the 5 x 5 ring layer the locator
\* returns the first and the last boundary Path cell in row-major order.
C18_RingBoundaryCells ==
    (locLayer = RingLayer /\ locCalls > 0) =>
        /\ locMarkers # Null
        /\ \E b \in BoundarySet(RingLayer) :
              /\ locMarkers[1].start = Some(b)
              /\ \A o \in BoundarySet(RingLayer) \ {b} : Before(b, o)
        /\ \E b \in BoundarySet(RingLayer) :
              /\ locMarkers[1].end = Some(b)
              /\ \A o \in BoundarySet(RingLayer) \ {b} : Before(o, b)

\* C18: the 5 x 5 ring layer has no boundary Path cell, and the locator
\* returns on it the first and the last Path cell in row-major order, the
\* interior cells (1,1) and (3,3); every repeated call returns that pair.
C18_RingInteriorCells ==
    /\ [](BoundarySet(RingLayer) = {}
          /\ ((locLayer = RingLayer /\ locCalls > 0) =>
                locMarkers = Some([start |-> Some([row |-> 1, col |-> 1]),
                                   end |-> Some([row |-> 3, col |-> 3])])))
    /\ [][(locLayer = RingLayer /\ locCalls > 0 /\ locCalls' > locCalls) =>
             locMarkers' = locMarkers]_vars

\* the locator called twice on the ring layer
C18_Witness ==
    /\ locLayer = RingLayer /\ locCalls = 2
    /\ locMarkers[1].start = Some(FirstOf(PathSet(RingLayer)))
    /\ locMarkers[1].end = Some(LastOf(PathSet(RingLayer)))

(***************************************************************************)
(* Claims about generation followed by building and locating               *)
(***************************************************************************)
\* a cell [row, col] of the locator as the pair <<row, col>>
AsPair(cell) == <<cell.row, cell.col>>

\* C13: for a layer generated by randomizedPrims with default entries,
\* building segments and locating markers yields a marker pair with non-null
\* start and end, at most 2*width*height wall segments, and no Path cell
\* that is unreachable from the start marker through adjacent Path cells.
C13_EndToEnd ==
    (gpc = "done" /\ bClass = "single" /\ locCalls > 0) =>
        /\ locMarkers # Null
        /\ locMarkers[1].start # Null /\ locMarkers[1].end # Null
        /\ Len(WallsIn(bLayers[1])) <= 2 * width * height
        /\ Flood({AsPair(locMarkers[1].start[1])},
                 PathCells(maze, width, height))
              = PathCells(maze, width, height)

(***************************************************************************)
(* Claims about updates that fail                                          *)
(***************************************************************************)
\* C14: when a maze update raises an error, the stored maze data and the
\* rendered layers are those from before the call and the displayed maze has
\* not been destroyed.
C14_FailedUpdateKeepsPrevious ==
    lastOp.op = "updateMazeThrew" =>
        /\ mazeData = lastOp.before.data
        /\ mazeLayers = lastOp.before.layers
        /\ isDisposed = lastOp.before.gone

\* C15: generation with width < 3 or height < 3 fails before any cell is
\* carved, for both generators; no grid, partial or complete, is returned.
C15_SmallDimensionsRejected ==
    (width < 3 \/ height < 3) =>
        /\ gpc # "done"
        /\ maze = FilledMaze(width, height)

(***************************************************************************)
(* Claims about the maze editor                                            *)
(***************************************************************************)
\* the last handler was a mouse event whose position is outside the grid
EdOutside ==
    /\ edOp.op = "mouse"
    /\ edOp.row < 0 \/ edOp.col < 0 \/ edOp.row >= edRows \/ edOp.col >= edCols

\* C16: a cell mutation whose target lies outside the grid extent (row < 0,
\* col < 0, row >= rows or col >= cols) leaves the grid and both markers
\* unchanged, for every tool and every editor state.
C16_OutsideRejected ==
    [][EdOutside' => (edGrid' = edGrid /\ edStart' = edStart /\ edEnd' = edEnd)]_vars

C16_Witness ==
    /\ EdOutside /\ edOp.row = edRows /\ edTool = "start"
    /\ edStart # Null /\ edEnd # Null /\ edGrid # initGrid(edRows, edCols)

(***************************************************************************)
(* Claims about rebuilding from the same stack                             *)
(***************************************************************************)
\* position and dimensions of the mesh of every group, per layer object
SceneSegments(layers) ==
    [i \in 1..Len(layers) |->
        [j \in 1..Len(layers[i]) |-> layers[i][j][1].params]]

ValidLayer(layer) ==
    /\ Len(layer) >= 3
    /\ \A r \in 1..Len(layer) : Len(layer[r]) = Len(layer[1])
    /\ Len(layer[1]) >= 3

\* C19: a layer given to the grid model on update whose rows do not all have
\* the same length, or that has fewer than 3 rows or fewer than 3 columns, is
\* rejected and is never rendered.
C19_InvalidLayerNeverRendered ==
    [][(lastOp'.op = "updateMaze" /\ mazeLayers' # << >>) =>
          \A i \in 1..Len(mazeData') : ValidLayer(mazeData'[i])]_vars

(***************************************************************************)
(* Claims about degenerate geometry                                        *)
(***************************************************************************)
\* C20: a cache get for a geometry with a zero width, height or thickness
\* is rejected and adds no entry to the cache.
C20_DegenerateRejected ==
    \A k \in DOMAIN geometries : \A i \in 2..Len(k) : k[i] # 0

(***************************************************************************)
(* Claims about the order of directions in carve()                         *)
(***************************************************************************)
HorizontalDirections == {<<1, 0>>, <<-1, 0>>}
VerticalDirections == {<<0, 1>>, <<0, -1>>}

\* C21: with bias = horizontal, in every carve frame both horizontal
\* directions are tried before either vertical direction; with
\* bias = vertical both vertical directions are tried before either
\* horizontal one.
C21_BiasedDirectionsFirst ==
    \A i \in 1..Len(frames) :
        /\ (bias = "horizontal"
               /\ frames[i].tried \cap VerticalDirections # {})
             => HorizontalDirections \subseteq frames[i].tried
        /\ (bias = "vertical"
               /\ frames[i].tried \cap HorizontalDirections # {})
             => VerticalDirections \subseteq frames[i].tried

(***************************************************************************)
(* Claims about termination of the generators                              *)
(***************************************************************************)
\* the number of Wall cells of the grid
WallCount(m, w, h) ==
    Cardinality({c \in (0..(h - 1)) \X (0..(w - 1)) : m[c[1]][c[2]] = 1})

\* the number of frontier entries whose cell is carved already
StaleEntries(list, m) ==
    Cardinality({i \in 1..Len(list) : m[list[i][2]][list[i][1]] = 0})

\* C22: the main loop of randomizedPrims terminates for every sequence of
\* random choices, also when the frontier list holds a cell several times:
\* every iteration either carves a Wall cell or takes an entry of a carved
\* cell off the list without carving, and the frontier becomes empty.
C22_PrimsTerminates ==
    /\ [][(alg = "prims" /\ gpc = "loop" /\ gpc' = "loop") =>
            \/ WallCount(maze', width, height) < WallCount(maze, width, height)
            \/ /\ maze' = maze
               /\ StaleEntries(walls', maze') < StaleEntries(walls, maze)]_vars
    /\ (alg = "prims" /\ gpc = "start") ~> (gpc = "done" /\ walls = << >>)

\* the frontier holds the same cell twice
C22_Witness ==
    /\ alg = "prims" /\ gpc = "loop"
    /\ \E i, j \in 1..Len(walls) : i # j /\ walls[i] = walls[j]
\* the in-bounds cells with odd row and odd column
OddCells(w, h) ==
    {c \in (0..(h - 1)) \X (0..(w - 1)) : c[1] % 2 = 1 /\ c[2] % 2 = 1}

\* C23: the carving phase of randomizedDepthFirst terminates for every order
\* of directions, every carve() call is on a cell of the grid, and when
\* carve(1, 1) returns, before the border loops, every in-bounds cell with odd
\* row and odd column is Path and the Path cells form a tree.
C23_CarveBuildsTree ==
    /\ [](alg = "dfs" =>
            \A i \in 1..Len(frames) :
                /\ frames[i].x \in 0..(width - 1)
                /\ frames[i].y \in 0..(height - 1))
    /\ []((alg = "dfs" /\ gpc = "carve" /\ frames = << >>) =>
            /\ OddCells(width, height) \subseteq PathCells(maze, width, height)
            /\ IsTree(PathCells(maze, width, height)))
    /\ (alg = "dfs" /\ gpc = "start") ~> (alg = "dfs" /\ gpc = "done")

\* carve(1, 1) has returned on a 4x4 grid whose last column holds a carved cell
C23_Witness ==
    /\ alg = "dfs" /\ gpc = "carve" /\ frames = << >>
    /\ width = 4 /\ height = 4 /\ maze[3][3] = 0

(***************************************************************************)
(* Claims about what an update leaves in the scene                         *)
(***************************************************************************)
\* the segments the subclass cls builds from a stack, per layer object
SegmentsOf(cls, stack) ==
    IF cls = "single" THEN SingleSegments(stack) ELSE MultiSegments(stack)

\* C24: after every updateMazeData(m) on a live maze, mazeLayers holds one
\* layer object per layer of m for MultiLayerMaze and exactly one for
\* SingleLayerMaze, each with one group per segment of its layer, and no
\* group carries a segment that is not a segment of m.
C24_RebuiltFromStackAlone ==
    [][(lastOp'.op = "updateMaze" /\ ~isDisposed') =>
          /\ Len(mazeLayers') =
                (IF mazeClass' = "single" THEN 1 ELSE Len(mazeData'))
          /\ \A i \in 1..Len(mazeLayers') :
                /\ Len(mazeLayers'[i]) =
                      Len(SegmentsOf(mazeClass', mazeData')[i])
                /\ \A j \in 1..Len(mazeLayers'[i]) :
                      mazeLayers'[i][j][1].params \in
                          SeqToSet(SegmentsOf(mazeClass', mazeData')[i])]_vars

\* a MultiLayerMaze rebuilt in place from the two-layer stack
C24_Witness ==
    /\ lastOp.op = "updateMaze" /\ lastOp.path = "reuse"
    /\ ~isDisposed /\ mazeClass = "multi" /\ mazeData = StackTwo
    /\ Len(mazeLayers) = 2

(***************************************************************************)
(* Claims about the preview                                                *)
(***************************************************************************)
\* C25: after MainApp.updateMaze(layerStack, multiLayer, markers) the
\* preview's start and end cells equal the explicit markers when markers
\* are supplied, and equal the marker locator's inference on layer 0 when
\* no markers are supplied.
C25_PreviewShowsMarkers ==
    lastOp.op = "updateMaze" =>
        IF previewMarkers # Null
        THEN /\ locCells[1].start = previewMarkers[1].start
             /\ locCells[1].end = previewMarkers[1].end
        ELSE locCells = computeMarkersFromLayer(mazeData[1])

(***************************************************************************)
(* Claims about the GUI settings                                           *)
(***************************************************************************)
\* the five visual fields of the displayed maze.  dat.GUI writes a value to
\* GUIController.settings and then calls the onChange handler, which calls
\* the Maze.update* method with the same value; the settings start at the
\* values of the Maze constructor.  So the settings and these fields change
\* together in every GUI step, and the fields equal what the user last set
\* for as long as no other step changes them.
Displayed == <<wallColor, floorColor, wallOpacity, floorOpacity, showEdges>>

\* C26: after every MainApp.updateMaze call, on the reuse path and on the
\* path that destroys the old maze and constructs a new one, the wall
\* colour, floor colour, wall and floor opacity and edge visibility of the
\* displayed maze equal the values the user last set through the GUI: the
\* call leaves them as the GUI handlers set them.
C26_GuiSettingsApplied ==
    [][lastOp'.op = "updateMaze" => Displayed' = Displayed]_vars

(***************************************************************************)
(* Claims about the entrances                                              *)
(***************************************************************************)
\* C27: for every layer returned by either generator with an entries mode
\* other than none, each of the two carved entry cells is orthogonally
\* adjacent to at least one Path cell that is not on the border.
C27_EntriesReachInterior ==
    (gpc = "done" /\ mazeEntries # "none") =>
        \A c \in EntryCells(width, height, mazeEntries) :
            \E p \in PathCells(maze, width, height) :
                Adjacent(c, p) /\ ~OnBorder(p, width, height)

(***************************************************************************)
(* Claims about the render loop                                            *)
(***************************************************************************)
\* C28: for any interleaving of requestRender calls and animation-frame
\* callbacks, at most one animation-frame callback of a Maze is pending at
\* any time.
C28_OneFramePending == Cardinality(rafQueue) <= 1

\* requestRender was called while a frame was pending, and one frame is
\* pending after it
C28_Witness ==
    /\ lastOp.op = "requestRender" /\ lastOp.pending /\ ~lastOp.gone
    /\ Cardinality(rafQueue) = 1

\* C29: on a maze that is not destroyed, every requestRender call is
\* eventually followed by a render that starts after the call, including a
\* call made from a render listener while the frame callback is executing.
C29_NoRequestLost ==
    \A tick \in {0, 1} :
        (unserved /\ ~isDisposed /\ renderTick = tick)
            ~> (renderTick # tick \/ isDisposed)

\* a render listener has called requestRender() inside the callback, after
\* the render: the request waits for the frame the callback asked for
C29_Witness ==
    /\ lastOp.op = "frame" /\ lastOp.rendered /\ lastOp.asked
    /\ unserved /\ ~isDisposed /\ rafQueue # {}

\* C30: after the first destroy() no render is performed again,
\* updateMazeData, resize and requestRender change nothing, mazeLayers is
\* empty and the resource cache is empty; a second destroy() has no effect.
C30_DestroyIsTerminal ==
    /\ [][isDisposed => /\ renderTick' = renderTick
                        /\ (lastOp'.op \in {"updateMazeData", "resize",
                                            "requestRender", "destroy"}
                               => UNCHANGED <<rmVars, mazeVars, renderVars>>)]_vars
    /\ [](isDisposed => /\ mazeLayers = << >>
                        /\ CacheHandles(RmState) = {}
                        /\ rafQueue = {})

\* destroy() has been called a second time, the first one having cancelled
\* a pending frame
C30_Witness ==
    /\ lastOp.op = "destroy" /\ lastOp.gone /\ isRendering
    /\ isDisposed /\ rafQueue = {}

(***************************************************************************)
(* Claims about the editor's markers                                       *)
(***************************************************************************)
\* C31: in the maze editor, after any sequence of tool actions, Create,
\* Clear and Reset, whenever the start marker is set the grid cell at its
\* position is Path (0), and likewise for the end marker.
C31_MarkersOnPath ==
    /\ edStart # Null => edGrid[edStart[1].row + 1][edStart[1].col + 1] = 0
    /\ edEnd # Null => edGrid[edEnd[1].row + 1][edEnd[1].col + 1] = 0

(***************************************************************************)
(* Claims about the order of the located markers                           *)
(***************************************************************************)
\* a located pair whose start and end are two cells, start scanned first
Ordered(pair) ==
    /\ pair.start # Null /\ pair.end # Null
    /\ pair.start # pair.end
    /\ Before(pair.start[1], pair.end[1])

\* C32: for every layer with at least two Path cells, the marker locator
\* returns a start cell and an end cell that are different cells, and start
\* comes before end in row-major order.
C32_StartBeforeEnd ==
    (locLayer # << >> /\ Cardinality(PathSet(locLayer)) >= 2) =>
        /\ locCalls > 0 => (locMarkers # Null /\ Ordered(locMarkers[1]))
        /\ locCells # << >> => Ordered(locCells[1])

MeshesOf(layers, kind) ==
    {g[1] : g \in {q \in UNION {SeqToSet(l) : l \in SeqToSet(layers)} :
                        q[1].kind = kind}}

\* the meshes of one kind reference one cached material, which carries the
\* colour and the opacity given
OneMaterial(kind, color, opacity) ==
    LET used == {m.material : m \in MeshesOf(mazeLayers, kind)}
    IN used # {} =>
          /\ Cardinality(used) = 1
          /\ \A h \in used :
                /\ h \in Values(materials)
                /\ attrs[h].color = color
                /\ attrs[h].opacity = opacity

\* colour and opacity of the cached materials of one type
AttrsOfType(type) ==
    [h \in MatchingMaterials(RmState, type) |-> attrs[h]]

\* C34: on a live maze, whatever colour, opacity and maze updates ran, all
\* wall meshes reference one single cached wall material whose colour and
\* opacity equal the maze's current wall settings, all floor meshes one
\* single cached floor material matching the floor settings, and a wall
\* update leaves the floor material unchanged (and conversely).
C34_OneMaterialPerKind ==
    /\ [](~isDisposed =>
            /\ OneMaterial("wall", wallColor, wallOpacity)
            /\ OneMaterial("floor", floorColor, floorOpacity))
    /\ [][(UpdateWallColor \/ UpdateWallOpacity) =>
             AttrsOfType("floor")' = AttrsOfType("floor")]_vars
    /\ [][(UpdateFloorColor \/ UpdateFloorOpacity) =>
             AttrsOfType("wall")' = AttrsOfType("wall")]_vars

\* the wall colour and the wall opacity were changed and the maze rebuilt
\* in place: the wall mesh carries the changed values, the floor the
\* defaults
C34_Witness ==
    /\ lastOp.op = "updateMaze" /\ lastOp.path = "reuse" /\ ~isDisposed
    /\ wallColor # DefaultWallColor /\ wallOpacity # Opaque
    /\ floorColor = DefaultFloorColor /\ floorOpacity = Opaque
    /\ MeshesOf(mazeLayers, "wall") # {}
    /\ MeshesOf(mazeLayers, "floor") # {}

(***************************************************************************)
(* Claims about the Maze objects of the application                        *)
(***************************************************************************)
\* C35: after any sequence of MainApp.updateMaze calls, exactly one Maze
\* instance is not destroyed, it is the one MainApp references, every
\* replaced instance has been destroyed, and the debug render listener is
\* registered on the current instance and on no other live instance.
C35_OneLiveMaze ==
    mazeInstances # << >> =>
        /\ currentMaze \in 1..Len(mazeInstances)
        /\ \A i \in 1..Len(mazeInstances) :
              /\ mazeInstances[i].isDisposed <=> i # currentMaze
              /\ "count" \in mazeInstances[i].renderListeners
                    <=> i = currentMaze
        /\ mazeInstances[currentMaze].cls = mazeClass
        /\ mazeInstances[currentMaze].isDisposed = isDisposed

\* the single-layer maze the application starts with has been replaced by
\* a multi-layer one
C35_Witness ==
    /\ Len(mazeInstances) = 2 /\ currentMaze = 2
    /\ lastOp.op = "updateMaze" /\ lastOp.path = "replace"
    /\ mazeInstances[1].cls = "single" /\ mazeInstances[1].isDisposed
    /\ mazeInstances[1].renderListeners = {}
    /\ mazeInstances[2].cls = "multi" /\ ~isDisposed

(***************************************************************************)
(* Claims about the preview window                                         *)
(***************************************************************************)
\* C36: a show() issued after hide(), before or after the hide timer fires,
\* leaves the window displayed and isVisible = true; a pending or late
\* finalizeHide never hides a window that has been shown again; at most one
\* hide timer is pending at any time.
C36_ShowWinsOverHide ==
    /\ lastOp.shown => (preview.isVisible /\ preview.display = "block")
    /\ (preview.isVisible /\ ~preview.isClosed) => preview.display # "none"
    /\ Cardinality(preview.timers) <= 1

\* the window was hidden, its timer ran, it was shown again with the key,
\* hidden again, and shown while the second timer was pending
C36_Witness ==
    /\ lastOp.op = "keyP" /\ lastOp.shown
    /\ preview.isVisible /\ preview.display = "block"
    /\ preview.timers = {} /\ preview.nextTimer = 3

\* C37: after every MainApp event handler completes, the GUI setting
\* showPreview equals MainApp.isPreviewVisible, which is true exactly when
\* the preview window exists, is not closed and is visible.
C37_CheckboxFollowsPreview ==
    mainPreview # << >> =>
        /\ mainPreview.showPreview = mainPreview.isPreviewVisible
        /\ mainPreview.isPreviewVisible <=>
              (/\ mainPreview.previewWindow /\ ~mainPreview.isPreviewClosed
               /\ preview.isVisible)

====
